---- MODULE Spec2Model ----
(***************************************************************************)
(* Model of the BetaNet mixnode data plane and its monitoring exporters:   *)
(*   - protocol version negotiation (core/protocol_version.rs) and the     *)
(*     per-connection handshake, read loop, shutdown and read timeout of   *)
(*     the TCP server, and TcpClient (server/tcp.rs),                      *)
(*   - the adaptive batch scheduler (pipeline/batching.rs),                *)
(*   - node reputation (core/reputation.rs),                               *)
(*   - the weighted relay lottery, its relay weights, cost of forgery and  *)
(*     lottery proofs (core/relay_lottery.rs),                             *)
(*   - the cover traffic generator and its statistics (cover.rs),          *)
(*   - packet adapters and the version byte (core/compatibility.rs),       *)
(*   - the Poisson delay generator (vrf/poisson_delay.rs),                 *)
(*   - the circuit breaker (monitoring/exporters/betanet_client.rs), the   *)
(*     time series buffer (monitoring/exporters/metric_collector.rs) and   *)
(*     BetanetClient::fetch_metrics with its cache,                        *)
(*   - the receive buffer of the read loop in bytes (server/tcp.rs),       *)
(*   - the ways to obtain a ReputationManager (core/reputation.rs,         *)
(*     core/relay_lottery.rs),                                             *)
(*   - the admin HTTP server and its mixnodes lock (server/http.rs).       *)
(* Each subsystem has its own specification (SpecConn, SpecServe,          *)
(* SpecClient, SpecNegotiate, SpecBatch, SpecAdapt, SpecRep, SpecLottery,  *)
(* SpecCache, SpecForgery, SpecProof, SpecPair, SpecCover, SpecStats,      *)
(* SpecCompat, SpecDelay, SpecBreaker, SpecRing, SpecRx, SpecMgr, SpecHttp,*)
(* SpecFetch); the variables of the other subsystems stay at their initial *)
(* value.                                                                  *)
(***************************************************************************)
EXTENDS Integers, Sequences, FiniteSets, TLC

\* ------------------------------------------------------------------------
\* Bounds of the model
\* ------------------------------------------------------------------------
MaxMajor == 2
MaxMinor == 2
MaxPatch == 1
\* one minor version above 15, whose low nibble collides with a small minor
HighMinor == 17
\* data frames a peer sends after the handshake
MaxFrames == 2
\* processed packets a connection writes back
MaxWrites == 1
\* time units a waiting read is followed for; config.connection_timeout is
\* one unit less, so that a wait longer than the timeout is representable
MaxIdle == 3

\* ------------------------------------------------------------------------
\* core/protocol_version.rs
\* ------------------------------------------------------------------------
Majors == 1..MaxMajor
Minors == (0..MaxMinor) \cup {HighMinor}
Patches == 0..MaxPatch

ProtocolVersion == [major : Majors, minor : Minors, patch : Patches]

\* Option::None of a ProtocolVersion, and an advertisement body that
\* ProtocolAdvertisement::decode rejects
NoVersion == [major |-> 0, minor |-> 0, patch |-> 0]

V1_2_0 == [major |-> 1, minor |-> 2, patch |-> 0]
V1_1_0 == [major |-> 1, minor |-> 1, patch |-> 0]

\* derived Ord of ProtocolVersion: lexicographic on (major, minor, patch)
VersionLess(a, b) ==
    \/ a.major < b.major
    \/ a.major = b.major /\ a.minor < b.minor
    \/ a.major = b.major /\ a.minor = b.minor /\ a.patch < b.patch

VersionMin(a, b) == IF VersionLess(a, b) THEN a ELSE b

is_compatible_with_NoMajorCheck(self, other) == self.minor >= other.minor

is_compatible_with(self, other) ==
    IF self.major # other.major THEN FALSE ELSE self.minor >= other.minor

\* 0x10 | (minor & 0x0F) for major 1, 0xFF otherwise
encode_byte(v) == IF v.major = 1 THEN 16 + (v.minor % 16) ELSE 255

\* byte & 0xF0 == 0x10  =>  Some(1, byte & 0x0F, 0)
decode_byte(byte) ==
    IF byte \div 16 = 1
    THEN [major |-> 1, minor |-> byte % 16, patch |-> 0]
    ELSE NoVersion

Compatible(v) == [tag |-> "Compatible", version |-> v, our |-> NoVersion, their |-> NoVersion]
Incompatible(o, t) == [tag |-> "Incompatible", version |-> NoVersion, our |-> o, their |-> t]
NoResult == [tag |-> "none", version |-> NoVersion, our |-> NoVersion, their |-> NoVersion]

negotiate_version_Higher(our_version, their_version) ==
    IF is_compatible_with(our_version, their_version)
    THEN Compatible(IF VersionLess(our_version, their_version)
                    THEN their_version ELSE our_version)
    ELSE Incompatible(our_version, their_version)

negotiate_version(our_version, their_version) ==
    IF is_compatible_with(our_version, their_version)
    THEN Compatible(IF VersionLess(our_version, their_version)
                    THEN our_version ELSE their_version)
    ELSE Incompatible(our_version, their_version)

\* core/compatibility.rs: PacketFormat::for_version
PacketFormat_for_version(v) ==
    IF v.major = 1 /\ v.minor = 0 THEN "V1_0"
    ELSE IF v.major = 1 /\ v.minor = 1 THEN "V1_1"
    ELSE IF v.major = 1 /\ v.minor = 2 THEN "V1_2"
    ELSE "V1_0"

\* ------------------------------------------------------------------------
\* State
\* ------------------------------------------------------------------------
VARIABLES
    \* --- one TCP connection, two endpoints (server/tcp.rs) ---
    mode,           \* "node": both ends run handle_connection; "raw": end B is an arbitrary TCP peer
    ver,            \* protocol_version of each end (for a raw peer: the version it advertises)
    pc,             \* position of each end in handle_connection / version_handshake
    result,         \* outcome of version_handshake: "none", "ok", "protocol", "io"
    wire,           \* wire[s]: chunks sent to s that s has not read yet
    closed,         \* closed[s]: s has dropped its TcpStream
    ad_length,      \* declared length of the peer advertisement (-1: none read)
    ad_buf,         \* size of the allocated ad_buf (-1: not allocated)
    ad_body_read,   \* the advertisement body was read from the stream
    their_version,  \* their_ad.version
    negotiated,     \* the locally computed negotiated version
    sent_byte,      \* negotiated byte written in step 5 (-1: none)
    confirm,        \* confirmation byte read in step 6 (-1: none)
    buffer,         \* receive buffer of the read loop
    loop_reads,     \* reads of the data loop that returned bytes
    submitted,      \* packets handed to pipeline.submit_packet
    written,        \* packet formats of the processed packets written back
    raw_frames,     \* data frames the raw peer has sent
    \* --- negotiate_version as a pure function ---
    nv_our, nv_their, nv_result, nv_reverse,
    \* --- AdaptiveBatchProcessor (pipeline/batching.rs) ---
    config,             \* AdaptiveBatchingConfig
    current_batch_size, \* AtomicUsize
    load_window,        \* last load samples, in percent
    network_load,       \* smoothed load as the fraction sum / len of percent samples
    packet_queue,       \* VecDeque of packets (packet ids)
    stats,              \* BatchingStats
    last_batch_time,    \* Instant of the last batch, in ms
    now,                \* the clock, in ms
    task,               \* per task: position in next_batch and its locals
    accepted,           \* packets for which submit_packet returned Ok
    returned,           \* returned[p]: how often packet p was part of a returned batch
    last_release,       \* time at which next_batch last returned a batch (-1: never)
    release_gap,        \* time between the last two returned batches (-1: fewer than two)
    \* --- ReputationManager (core/reputation.rs) ---
    reputations,        \* HashMap of NodeReputation, keyed by node
    today,              \* SystemTime::now(), in days
    ticks_today,        \* apply_decay_all calls since the day began (2: two or more)
    daily,              \* every day that ended saw exactly one apply_decay_all call
    rep_outcome,        \* how the last update_reputation ended: "none", "ok", "panic"
    \* --- RelayLottery (core/relay_lottery.rs) ---
    relays,             \* Vec<WeightedRelay>
    relay_map,          \* HashMap address -> index into relays (0: no entry)
    weighted_index,     \* Option<WeightedIndex>: the weights it was built from
    sybil_resistance,   \* bool
    min_stake,          \* u64
    reputation_manager, \* the nodes the lottery's own ReputationManager knows
    selection,          \* the last selection call and what it returned
    synced,             \* sync_with_reputation_manager ran after the last add_relay
    removed_any,        \* remove_relay has removed a relay
    \* --- AdvancedCoverTrafficGenerator (cover.rs) ---
    cover_config,       \* CoverTrafficConfig
    packets_sent,       \* AtomicU64
    bytes_sent,         \* AtomicU64
    real_traffic_stats, \* TrafficStatistics: packet_count and the bytes avg_packet_size stands for
    cover_traffic_stats,
    cover_packet,       \* length of the last generated cover packet (-1: None)
    \* --- TcpServer shutdown and read timeout (server/tcp.rs) ---
    shutdown,           \* stop() has sent the shutdown signal
    idle,               \* per end: time spent waiting in the current read
    \* --- PoissonDelayGenerator (vrf/poisson_delay.rs) ---
    generator,          \* the generator's fields; durations in microseconds
    delay,              \* the last Duration returned by next_delay, in microseconds (-1: none)
    \* --- PacketAdapter and the version byte (core/compatibility.rs, core/protocol_version.rs) ---
    tc_source,          \* TranslationContext.source_version
    tc_target,          \* TranslationContext.target_version
    tc_adapter,         \* result of get_adapter: none, Ok or Err
    packet_data,        \* the bytes handed to convert
    converted,          \* result of convert
    round_trip,         \* decode_byte(encode_byte(tc_source)), once computed
    \* --- RelayLottery::cost_of_forgery and verify_lottery_proof (core/relay_lottery.rs) ---
    forgery,            \* cost_of_forgery for every attacker stake, on the lottery as it was
    verdict,            \* the proof last given to verify_lottery_proof, and the answer
    \* --- two WeightedRelays of equal performance and stake (core/relay_lottery.rs) ---
    pair,               \* the two relays
    pair_updates,       \* update_reputation calls so far
    \* --- CircuitBreaker (monitoring/exporters/betanet_client.rs) ---
    state,              \* CircuitState
    failure_count,      \* u32
    last_failure_time,  \* Option<Instant>, in seconds (-1: None)
    clock,              \* Instant::now(), in seconds
    attempt,            \* the last can_attempt call: where it found the breaker and what it returned
    \* --- TimeSeriesBuffer (monitoring/exporters/metric_collector.rs) ---
    ts_data,            \* VecDeque<MetricDataPoint>, front first
    ts_max_size,        \* max_size
    ts_pushed,          \* every point pushed so far, in push order
    \* --- the read loop of handle_connection, in bytes (server/tcp.rs) ---
    rx_frames,          \* declared lengths of the frames the peer has begun and the loop has not split off
    rx_sent,            \* bytes of those frames the peer has written
    rx_buffer,          \* buffer.len() between two turns of the loop
    rx_submitted,       \* lengths of the packets submitted to the pipeline
    rx_started,         \* frames the peer has begun
    \* --- ReputationManager, by constructor (core/reputation.rs, core/relay_lottery.rs) ---
    mgr,                \* the manager: how it was built, decay_rate, min_reputation_threshold, its node
    mgr_today,          \* days since the node was last active
    mgr_decay,          \* the last apply_decay_all that touched the node
    \* --- the admin HTTP server (server/http.rs) ---
    http_lock,          \* holder of the Mutex around AppState.mixnodes, or "free"
    http_poisoned,      \* the Mutex is poisoned
    http_mixnodes,      \* mixnodes.len()
    http_req,           \* per spawned task: the endpoint requested and the position of handle_request
    http_accepted,      \* connections accepted
    \* --- BetanetClient::fetch_metrics (monitoring/exporters/betanet_client.rs) ---
    fc_breaker,         \* the client's CircuitBreaker
    fc_cache,           \* the client's MetricsCache
    fc_now,             \* seconds since the client was built
    fc_call,            \* the last fetch_metrics call and what it did
    fc_streak           \* consecutive calls that reached the upstream and found every request failing

connVars == <<mode, ver, pc, result, wire, closed, ad_length, ad_buf, ad_body_read,
              their_version, negotiated, sent_byte, confirm, buffer, loop_reads,
              submitted, written, raw_frames, shutdown, idle>>
negVars == <<nv_our, nv_their, nv_result, nv_reverse>>
batchVars == <<config, current_batch_size, load_window, network_load, packet_queue, stats,
               last_batch_time, now, task, accepted, returned, last_release, release_gap>>
repVars == <<reputations, today, ticks_today, daily, rep_outcome>>
lotteryVars == <<relays, relay_map, weighted_index, sybil_resistance, min_stake,
                 reputation_manager, selection, synced, removed_any>>
coverVars == <<cover_config, packets_sent, bytes_sent, real_traffic_stats,
               cover_traffic_stats, cover_packet>>
delayVars == <<generator, delay>>
compatVars == <<tc_source, tc_target, tc_adapter, packet_data, converted, round_trip>>
auditVars == <<forgery, verdict>>
pairVars == <<pair, pair_updates>>
breakerVars == <<state, failure_count, last_failure_time, clock, attempt>>
ringVars == <<ts_data, ts_max_size, ts_pushed>>
rxVars == <<rx_frames, rx_sent, rx_buffer, rx_submitted, rx_started>>
mgrVars == <<mgr, mgr_today, mgr_decay>>
httpVars == <<http_lock, http_poisoned, http_mixnodes, http_req, http_accepted>>
fetchVars == <<fc_breaker, fc_cache, fc_now, fc_call, fc_streak>>
vars == <<connVars, negVars, batchVars, repVars, lotteryVars, coverVars, delayVars, compatVars, auditVars, pairVars, breakerVars, ringVars, rxVars, mgrVars, httpVars, fetchVars>>

\* what the actions of one component leave alone
outsideConn == <<negVars, batchVars, repVars, lotteryVars, coverVars, delayVars, compatVars, auditVars, pairVars, breakerVars, ringVars, rxVars, mgrVars, httpVars, fetchVars>>
outsideNeg == <<connVars, batchVars, repVars, lotteryVars, coverVars, delayVars, compatVars, auditVars, pairVars, breakerVars, ringVars, rxVars, mgrVars, httpVars, fetchVars>>
outsideBatch == <<connVars, negVars, repVars, lotteryVars, coverVars, delayVars, compatVars, auditVars, pairVars, breakerVars, ringVars, rxVars, mgrVars, httpVars, fetchVars>>
outsideRep == <<connVars, negVars, batchVars, lotteryVars, coverVars, delayVars, compatVars, auditVars, pairVars, breakerVars, ringVars, rxVars, mgrVars, httpVars, fetchVars>>
outsideLottery == <<connVars, negVars, batchVars, repVars, coverVars, delayVars, compatVars, auditVars, pairVars, breakerVars, ringVars, rxVars, mgrVars, httpVars, fetchVars>>
outsideCover == <<connVars, negVars, batchVars, repVars, lotteryVars, delayVars, compatVars, auditVars, pairVars, breakerVars, ringVars, rxVars, mgrVars, httpVars, fetchVars>>
outsideDelay == <<connVars, negVars, batchVars, repVars, lotteryVars, coverVars, compatVars, auditVars, pairVars, breakerVars, ringVars, rxVars, mgrVars, httpVars, fetchVars>>
outsideCompat == <<connVars, negVars, batchVars, repVars, lotteryVars, coverVars, delayVars, auditVars, pairVars, breakerVars, ringVars, rxVars, mgrVars, httpVars, fetchVars>>
outsideAudit == <<connVars, negVars, batchVars, repVars, lotteryVars, coverVars, delayVars, compatVars, pairVars, breakerVars, ringVars, rxVars, mgrVars, httpVars, fetchVars>>
outsidePair == <<connVars, negVars, batchVars, repVars, lotteryVars, coverVars, delayVars, compatVars, auditVars, breakerVars, ringVars, rxVars, mgrVars, httpVars, fetchVars>>
outsideBreaker == <<connVars, negVars, batchVars, repVars, lotteryVars, coverVars, delayVars, compatVars, auditVars, pairVars, ringVars, rxVars, mgrVars, httpVars, fetchVars>>
outsideRing == <<connVars, negVars, batchVars, repVars, lotteryVars, coverVars, delayVars, compatVars, auditVars, pairVars, breakerVars, rxVars, mgrVars, httpVars, fetchVars>>
outsideRx == <<connVars, negVars, batchVars, repVars, lotteryVars, coverVars, delayVars, compatVars, auditVars, pairVars, breakerVars, ringVars, mgrVars, httpVars, fetchVars>>
outsideMgr == <<connVars, negVars, batchVars, repVars, lotteryVars, coverVars, delayVars, compatVars, auditVars, pairVars, breakerVars, ringVars, rxVars, httpVars, fetchVars>>
outsideHttp == <<connVars, negVars, batchVars, repVars, lotteryVars, coverVars, delayVars, compatVars, auditVars, pairVars, breakerVars, ringVars, rxVars, mgrVars, fetchVars>>
outsideFetch == <<connVars, negVars, batchVars, repVars, lotteryVars, coverVars, delayVars, compatVars, auditVars, pairVars, breakerVars, ringVars, rxVars, mgrVars, httpVars>>

Sides == {"A", "B"}
Peer(s) == IF s = "A" THEN "B" ELSE "A"
IsNode(s) == s = "A" \/ mode = "node"
\* s reads what its peer writes: a node, or a TcpClient awaiting its response
Receives(s) == IsNode(s) \/ mode = "client"

\* chunks on the wire: a u32 length prefix, a body of the declared length
\* (its content is what ProtocolAdvertisement::decode makes of it), one byte
U32(n) == [k |-> "u32", v |-> n, c |-> NoVersion]
Body(c) == [k |-> "body", v |-> 0, c |-> c]
Byte(b) == [k |-> "byte", v |-> b, c |-> NoVersion]

\* ProtocolAdvertisement::encode: length of the JSON document
EncodedAdLength == 300

\* the sanity check of step 2
AdTooLarge_Off(ad_len) == FALSE

AdTooLarge(ad_len) == ad_len > 4096

\* lengths a raw peer declares for its advertisement
AdLengths == {EncodedAdLength, 4096, 4097}
\* confirmation bytes a raw peer sends
RawBytes == {encode_byte(v) : v \in ProtocolVersion} \cup {0, 255}
\* declared length of a data frame
DataLens == {8}

\* step 6: their_negotiated != negotiated  =>  Err
ConfirmMatches_Any(their_negotiated, neg) == TRUE

ConfirmMatches(their_negotiated, neg) == their_negotiated = neg

\* handle_connection: match on the handshake result
ProceedsToDataLoop_Always(r) == TRUE

ProceedsToDataLoop(r) == r = "ok"

\* the format of a processed packet written back: packet.data is written as
\* the pipeline produced it; the negotiated version is not consulted
WrittenFormat(own, neg) == PacketFormat_for_version(own)

\* ------------------------------------------------------------------------
\* pipeline/batching.rs
\* ------------------------------------------------------------------------
\* packets submitted in one run
MaxSubmits == 2
\* update_network_load calls in one run
MaxLoadUpdates == 1
\* the clock stops here
MaxTime == 1

\* the tasks that call next_batch concurrently
Tasks == {"t1", "t2"}
Packets == 1..MaxSubmits

Strategies == {"Fixed", "LoadBased", "MinLatency", "MaxThroughput", "Balanced"}

\* configurations offered to AdaptiveBatchProcessor::new; loads and
\* thresholds are in percent
CandidateConfigs ==
    [min_batch_size : {0, 1, 3},
     max_batch_size : {2, 128, 129},
     initial_batch_size : {2, 200},
     strategy : Strategies,
     min_delay_ms : {1},
     load_increase_threshold : {50, 70},
     load_decrease_threshold : {50}]

\* loads fed to update_network_load, in percent (after the clamp to [0, 1])
Loads == {0, 50, 100}

\* capacity of the load window
LoadWindowSize == 100

\* the configured capacity of the input queue (spec, invariant I3);
\* AdaptiveBatchingConfig has no field for it
QueueCapacity == 1

\* AdaptiveBatchProcessor::new returns Ok
ConfigAccepted(c) ==
    /\ ~(c.min_batch_size < 1 \/ c.max_batch_size > 128)
    /\ ~(c.min_batch_size > c.max_batch_size)

\* f64::round followed by `as usize` of the fraction num / den, den > 0:
\* half away from zero, negative values saturate at 0
RoundToUsize(num, den) == IF num <= 0 THEN 0 ELSE (2 * num + den) \div (2 * den)

RECURSIVE SumSeq(_)
SumSeq(q) == IF q = <<>> THEN 0 ELSE Head(q) + SumSeq(Tail(q))

\* adapt_batch_size: the new size for the smoothed load sum / len (percent)
NewBatchSize(c, sum, len) ==
    LET min == c.min_batch_size
        max == c.max_batch_size
        inc == c.load_increase_threshold
        dec == c.load_decrease_threshold
    IN
    CASE c.strategy = "Fixed" -> c.initial_batch_size
      [] c.strategy = "LoadBased" ->
            \* min + (max - min) * load^2, load = sum / (100 * len)
            LET d == 10000 * len * len
            IN RoundToUsize(min * d + (max - min) * sum * sum, d)
      [] c.strategy = "MinLatency" ->
            IF sum < dec * len THEN min ELSE (min + max) \div 4
      [] c.strategy = "MaxThroughput" ->
            IF sum > inc * len THEN max ELSE (min + max * 3) \div 4
      [] c.strategy = "Balanced" ->
            IF sum < dec * len THEN min
            ELSE IF sum > inc * len THEN max
            ELSE LET mid == (min + max) \div 2
                     d == (inc - dec) * len
                 IN \* inc = dec: 0.0 / 0.0 is NaN, and NaN as usize is 0
                    IF d = 0 THEN 0
                    ELSE RoundToUsize(mid * d + (max - mid) * (sum - dec * len), d)

\* the packets next_batch pops, and the queue it leaves
BatchOf(queue, n) == SubSeq(queue, 1, n)

QueueAfter_DropsOneMore(queue, n) == SubSeq(queue, n + 2, Len(queue))

QueueAfter(queue, n) == SubSeq(queue, n + 1, Len(queue))

Min2(a, b) == IF a < b THEN a ELSE b

\* time between the batch returned at `at` and the one returned before it
SinceLastRelease(last, at) == IF last = -1 THEN -1 ELSE at - last

IdleTask == [pc |-> "idle", target_size |-> 0, wait_time |-> 0, wake |-> 0]

BatchInitWith(c) ==
    /\ config = c
    /\ current_batch_size = c.initial_batch_size
    /\ load_window = <<>>
    /\ network_load = [sum |-> 0, len |-> 1]
    /\ packet_queue = <<>>
    /\ stats = [packets_processed |-> 0, batches_created |-> 0, avg_batch_size |-> 0,
                total_delay_ms |-> 0, adaptations_count |-> 0]
    /\ last_batch_time = 0
    /\ now = 0
    /\ task = [t \in Tasks |-> IdleTask]
    /\ accepted = 0
    /\ returned = [p \in Packets |-> 0]
    /\ last_release = -1
    /\ release_gap = -1

DefaultConfig ==
    [min_batch_size |-> 1, max_batch_size |-> 128, initial_batch_size |-> 32,
     strategy |-> "Balanced", min_delay_ms |-> 10,
     load_increase_threshold |-> 70, load_decrease_threshold |-> 30]

BatchIdle == BatchInitWith(DefaultConfig)

\* AdaptiveBatchProcessor::new(c) for every candidate it accepts
BatchInit == \E c \in CandidateConfigs : ConfigAccepted(c) /\ BatchInitWith(c)

\* the same, for the configurations whose batch sizes a run of MaxSubmits
\* packets can exceed
SmallBatchInit ==
    \E c \in CandidateConfigs :
        ConfigAccepted(c) /\ c.max_batch_size <= MaxSubmits /\ BatchInitWith(c)

\* submit_packet: push_back under the queue lock
SubmitPacket ==
    /\ accepted < MaxSubmits
    /\ packet_queue' = Append(packet_queue, accepted + 1)
    /\ accepted' = accepted + 1
    /\ UNCHANGED <<config, current_batch_size, load_window, network_load, stats,
                   last_batch_time, now, task, returned, last_release, release_gap>>
    /\ UNCHANGED outsideBatch

\* update_network_load, adapt_batch_size included
UpdateNetworkLoad ==
    /\ Len(load_window) < MaxLoadUpdates
    /\ \E load \in Loads :
          LET pushed == Append(load_window, load)
              window == IF Len(pushed) > LoadWindowSize THEN Tail(pushed) ELSE pushed
              sum == SumSeq(window)
              new_size == NewBatchSize(config, sum, Len(window))
          IN  /\ load_window' = window
              /\ network_load' = [sum |-> sum, len |-> Len(window)]
              /\ IF new_size # current_batch_size
                 THEN /\ current_batch_size' = new_size
                      /\ stats' = [stats EXCEPT !.adaptations_count = @ + 1]
                 ELSE UNCHANGED <<current_batch_size, stats>>
    /\ UNCHANGED <<config, packet_queue, last_batch_time, now, task, accepted, returned,
                   last_release, release_gap>>
    /\ UNCHANGED outsideBatch

\* next_batch, first part: read the target size, then under the
\* last_batch_time lock either stamp the time or decide to sleep
NextBatchStart(t) ==
    /\ task[t].pc = "idle"
    /\ LET elapsed == now - last_batch_time
           min_delay == config.min_delay_ms
       IN IF elapsed < min_delay
          THEN /\ task' = [task EXCEPT ![t] =
                      [pc |-> "sleep", target_size |-> current_batch_size,
                       wait_time |-> min_delay - elapsed,
                       wake |-> now + (min_delay - elapsed)]]
               /\ UNCHANGED last_batch_time
          ELSE /\ task' = [task EXCEPT ![t] =
                      [pc |-> "collect", target_size |-> current_batch_size,
                       wait_time |-> 0, wake |-> 0]]
               /\ last_batch_time' = now
    /\ UNCHANGED <<config, current_batch_size, load_window, network_load, packet_queue,
                   stats, now, accepted, returned, last_release, release_gap>>
    /\ UNCHANGED outsideBatch

\* next_batch, after the sleep: count the delay, stamp the time
NextBatchWake(t) ==
    /\ task[t].pc = "sleep"
    /\ now >= task[t].wake
    /\ stats' = [stats EXCEPT !.total_delay_ms = @ + task[t].wait_time]
    /\ last_batch_time' = now
    /\ task' = [task EXCEPT ![t].pc = "collect"]
    /\ UNCHANGED <<config, current_batch_size, load_window, network_load, packet_queue,
                   now, accepted, returned, last_release, release_gap>>
    /\ UNCHANGED outsideBatch

\* next_batch, last part: collect the batch under the queue lock
NextBatchCollect(t) ==
    /\ task[t].pc = "collect"
    /\ LET actual_size == Min2(Len(packet_queue), task[t].target_size)
           batch == BatchOf(packet_queue, actual_size)
       IN IF actual_size = 0
          THEN UNCHANGED <<packet_queue, stats, returned, last_release, release_gap>>
          ELSE /\ packet_queue' = QueueAfter(packet_queue, actual_size)
               /\ release_gap' = SinceLastRelease(last_release, now)
               /\ last_release' = now
               /\ returned' = [p \in Packets |->
                      returned[p] + Cardinality({i \in 1..Len(batch) : batch[i] = p})]
               /\ stats' = [stats EXCEPT
                      !.packets_processed = @ + Len(batch),
                      !.batches_created = @ + 1,
                      !.avg_batch_size =
                          (stats.packets_processed + Len(batch)) \div (stats.batches_created + 1)]
    /\ task' = [task EXCEPT ![t] = IdleTask]
    /\ UNCHANGED <<config, current_batch_size, load_window, network_load,
                   last_batch_time, now, accepted>>
    /\ UNCHANGED outsideBatch

\* a millisecond passes
Tick ==
    /\ now < MaxTime
    /\ now' = now + 1
    /\ UNCHANGED <<config, current_batch_size, load_window, network_load, packet_queue,
                   stats, last_batch_time, task, accepted, returned, last_release, release_gap>>
    /\ UNCHANGED outsideBatch

\* ------------------------------------------------------------------------
\* core/reputation.rs
\* ------------------------------------------------------------------------
\* days the clock runs
MaxDays == 10
\* update_reputation calls on one node
MaxActions == 1

\* ReputationPoints = i32
MaxI32 == 2147483647
MinI32 == -MaxI32 - 1

RepNodes == {"n1"}

NamedActions == {"SuccessfulTask", "UptimeMilestone", "HighQualityService",
                 "TaskFailure", "DroppedConnection", "MaliciousBehavior"}
\* deltas passed in ReputationAction::Custom
CustomDeltas == {MinI32, -201, -1, 1, 201, MaxI32}
ReputationActions ==
    [tag : NamedActions, delta : {0}] \cup [tag : {"Custom"}, delta : CustomDeltas]

points_delta(action) ==
    CASE action.tag = "SuccessfulTask" -> 10
      [] action.tag = "UptimeMilestone" -> 5
      [] action.tag = "HighQualityService" -> 20
      [] action.tag = "TaskFailure" -> -15
      [] action.tag = "DroppedConnection" -> -25
      [] action.tag = "MaliciousBehavior" -> -50
      [] action.tag = "Custom" -> action.delta

\* a + b of two i32 leaves the i32 range
AddOverflows(a, b) ==
    \/ a >= 0 /\ b > MaxI32 - a
    \/ a < 0 /\ b < MinI32 - a

\* a + b in two's complement (the result of a build without overflow checks)
WrappingAdd(a, b) ==
    IF a >= 0 /\ b > MaxI32 - a THEN MinI32 + (a - (MaxI32 - b) - 1)
    ELSE IF a < 0 /\ b < MinI32 - a THEN MaxI32 - ((MinI32 - a) - b - 1)
    ELSE a + b

clamp_Off(x, lo, hi) == x

clamp(x, lo, hi) == IF x < lo THEN lo ELSE IF x > hi THEN hi ELSE x

\* decay_rate.powi(days) for decay_rate = 0.99, in millionths; with points
\* in 0..200 the truncated product equals the one computed in f64
DecayFactor ==
    <<990000, 980100, 970299, 960596, 950990, 941480, 932065,
      922745, 913517, 904382, 895338, 886385, 877521>>

\* (reputation_points as f64 * decay_factor) as i32
DecayedPoints(points, days_inactive) == (points * DecayFactor[days_inactive]) \div 1000000

\* reputation_points as f64 / 200.0, as a fraction
Normalized(points) == [num |-> points, den |-> 200]

NoReputation ==
    [present |-> FALSE, reputation_points |-> 0, reputation |-> [num |-> 0, den |-> 1],
     last_active |-> 0, created_at |-> 0, total_actions |-> 0, decay_events |-> 0]

\* NodeReputation::new at day `at`
NewReputation(at) ==
    [present |-> TRUE, reputation_points |-> 100, reputation |-> [num |-> 1, den |-> 2],
     last_active |-> at, created_at |-> at, total_actions |-> 0, decay_events |-> 0]

days_since_active(rep, at) == at - rep.last_active

\* NodeReputation::apply_action, the addition not overflowing or wrapping
apply_action(rep, action, at) ==
    LET points == clamp(WrappingAdd(rep.reputation_points, points_delta(action)), 0, 200)
    IN [rep EXCEPT !.reputation_points = points,
                   !.reputation = Normalized(points),
                   !.total_actions = @ + 1,
                   !.last_active = at]

\* the body of the loop of apply_decay_all for one node
apply_decay(rep, at) ==
    LET days_inactive == days_since_active(rep, at)
        points == clamp(DecayedPoints(rep.reputation_points, days_inactive), 0, 200)
    IN IF rep.present /\ days_inactive > 0
       THEN [rep EXCEPT !.reputation_points = points,
                        !.reputation = Normalized(points),
                        !.decay_events = @ + 1]
       ELSE rep

\* ReputationManager::new
RepInit ==
    /\ reputations = [n \in RepNodes |-> NoReputation]
    /\ today = 0
    /\ ticks_today = 0
    /\ daily = TRUE
    /\ rep_outcome = "none"

\* ReputationManager::add_node
AddNode(n) ==
    /\ ~reputations[n].present
    /\ reputations' = [reputations EXCEPT ![n] = NewReputation(today)]
    /\ UNCHANGED <<today, ticks_today, daily, rep_outcome>>
    /\ UNCHANGED outsideRep

\* ReputationManager::update_reputation: entry().or_insert_with(new), then
\* apply_action. Where the addition overflows, a build with overflow checks
\* panics before the assignment, a build without them wraps.
UpdateReputation(n) ==
    /\ \E action \in ReputationActions :
          LET rep == IF reputations[n].present THEN reputations[n] ELSE NewReputation(today)
          IN  /\ rep.total_actions < MaxActions
              /\ \/ /\ reputations' = [reputations EXCEPT ![n] = apply_action(rep, action, today)]
                    /\ rep_outcome' = "ok"
                 \/ /\ AddOverflows(rep.reputation_points, points_delta(action))
                    /\ reputations' = [reputations EXCEPT ![n] = rep]
                    /\ rep_outcome' = "panic"
    /\ UNCHANGED <<today, ticks_today, daily>>
    /\ UNCHANGED outsideRep

\* ReputationManager::apply_decay_all
ApplyDecayAll ==
    /\ ticks_today < 2
    /\ reputations' = [n \in RepNodes |-> apply_decay(reputations[n], today)]
    /\ ticks_today' = ticks_today + 1
    /\ UNCHANGED <<today, daily, rep_outcome>>
    /\ UNCHANGED outsideRep

\* a day passes; the days are counted from the first node's registration
DayPasses ==
    /\ today < MaxDays
    /\ \E n \in RepNodes : reputations[n].present
    /\ today' = today + 1
    /\ daily' = (daily /\ (today = 0 \/ ticks_today = 1))
    /\ ticks_today' = 0
    /\ UNCHANGED <<reputations, rep_outcome>>
    /\ UNCHANGED outsideRep

RepNext ==
    \/ \E n \in RepNodes : AddNode(n)
    \/ \E n \in RepNodes : UpdateReputation(n)
    \/ ApplyDecayAll
    \/ DayPasses

\* ------------------------------------------------------------------------
\* core/relay_lottery.rs
\* ------------------------------------------------------------------------
\* relays registered at one time
MaxRelays == 2
\* relays asked of one select_relays / select_unique_relays call
MaxSelect == 1

Addresses == {"a1", "a2"}
\* reputation and performance in percent, stake in tokens
RelayReputations == {80}
RelayPerformances == {50}
RelayStakes == {0, 1000}

\* weights are in units of 1/10000
\* (stake as f64).ln() / 20.0; ln(0) is -inf
StakeScore(stake) ==
    CASE stake = 0 -> -1000000
      [] stake = 1 -> 0
      [] stake = 100 -> 2303
      [] stake = 1000 -> 3454

\* reputation * 0.5 + performance * 0.3 + stake_score.min(1.0) * 0.2, then .max(0.01)
CombinedWeight(reputation, performance, stake) ==
    LET stake_score == StakeScore(stake)
        capped == IF stake_score < 10000 THEN stake_score ELSE 10000
        weight == reputation * 50 + performance * 30 + capped \div 5
    IN IF weight > 100 THEN weight ELSE 100

\* WeightedRelay::new
NewWeightedRelay(address, reputation, performance, stake) ==
    [address |-> address, reputation |-> reputation, performance |-> performance,
     stake |-> stake, weight |-> CombinedWeight(reputation, performance, stake)]

CandidateRelays ==
    {NewWeightedRelay(a, r, p, st) :
        a \in Addresses, r \in RelayReputations, p \in RelayPerformances, st \in RelayStakes}

\* the lotteries built by RelayLottery::new and RelayLottery::with_config
LotteryConfigs ==
    {[sybil_resistance |-> FALSE, min_stake |-> 0],
     [sybil_resistance |-> TRUE, min_stake |-> 1000]}

NoIndex == [some |-> FALSE, weights |-> <<>>]
SomeIndex(weights) == [some |-> TRUE, weights |-> weights]

NoSelection ==
    [op |-> "none", count |-> 0, available |-> 0, outcome |-> "none", addrs |-> <<>>,
     after_sync |-> FALSE, low_stake |-> FALSE]

\* a node the lottery's ReputationManager does not know
UnknownNode == [present |-> FALSE, stake |-> 0, reputation |-> 0, performance |-> 0]

WeightsOf(rs) == [i \in 1..Len(rs) |-> rs[i].weight]

\* WeightedIndex::new returns Ok: some weight, none negative, not all zero
WeightedIndexNewOk(weights) ==
    /\ Len(weights) > 0
    /\ \A i \in 1..Len(weights) : weights[i] >= 0
    /\ \E i \in 1..Len(weights) : weights[i] > 0

\* the indices WeightedIndex::sample can return
Samples(weights) == {i \in 1..Len(weights) : weights[i] > 0}

RemoveAt(q, i) == SubSeq(q, 1, i - 1) \o SubSeq(q, i + 1, Len(q))

\* relay_map after inserting every relay in order: the last index wins
RebuiltMap(rs) ==
    [a \in Addresses |->
        IF \E i \in 1..Len(rs) : rs[i].address = a
        THEN CHOOSE i \in 1..Len(rs) :
                 /\ rs[i].address = a
                 /\ \A j \in (i + 1)..Len(rs) : rs[j].address # a
        ELSE 0]

\* remove_relay: the cached weighted index after a removal
IndexAfterRemove_Kept(index) == index

IndexAfterRemove(index) == NoIndex

\* ensure_weighted_index returns Ok
EnsureOk ==
    \/ weighted_index.some
    \/ relays # <<>> /\ WeightedIndexNewOk(WeightsOf(relays))

\* the cache ensure_weighted_index leaves
EnsuredIndex ==
    IF weighted_index.some THEN weighted_index
    ELSE IF EnsureOk THEN SomeIndex(WeightsOf(relays))
    ELSE NoIndex

\* some selected address belongs to a relay whose stake is below min_stake
HasLowStake(addrs) ==
    \E i \in 1..Len(addrs), j \in 1..Len(relays) :
        relays[j].address = addrs[i] /\ relays[j].stake < min_stake

Selected(op, count, outcome, addrs) ==
    [op |-> op, count |-> count, available |-> Len(relays), outcome |-> outcome,
     addrs |-> addrs, after_sync |-> synced, low_stake |-> HasLowStake(addrs)]

\* the addresses at the given indices; an index past the end panics
AddressesAt(op, count, indices) ==
    IF \E i \in 1..Len(indices) : indices[i] > Len(relays)
    THEN Selected(op, count, "panic", <<>>)
    ELSE Selected(op, count, "ok", [i \in 1..Len(indices) |-> relays[indices[i]].address])

\* select_unique_relays, the loop: every sequence of k indices it can draw
\* from the available ones; <<0>> stands for the Err of WeightedIndex::new
RECURSIVE UniqueDraws(_, _)
UniqueDraws(available_indices, k) ==
    IF k = 0 \/ available_indices = <<>> THEN {<<>>}
    ELSE LET weights == [i \in 1..Len(available_indices) |->
                            relays[available_indices[i]].weight]
         IN IF ~WeightedIndexNewOk(weights) THEN {<<0>>}
            ELSE UNION {
                   {IF rest = <<0>> THEN <<0>> ELSE <<available_indices[local_index]>> \o rest :
                       rest \in UniqueDraws(RemoveAt(available_indices, local_index), k - 1)} :
                   local_index \in Samples(weights)}

\* RelayLottery::new / with_config
LotteryInitWith(c) ==
    /\ relays = <<>>
    /\ relay_map = [a \in Addresses |-> 0]
    /\ weighted_index = NoIndex
    /\ sybil_resistance = c.sybil_resistance
    /\ min_stake = c.min_stake
    /\ reputation_manager = [a \in Addresses |-> UnknownNode]
    /\ selection = NoSelection
    /\ synced = FALSE
    /\ removed_any = FALSE

LotteryIdle == LotteryInitWith([sybil_resistance |-> FALSE, min_stake |-> 0])

LotteryInit == \E c \in LotteryConfigs : LotteryInitWith(c)

\* add_relay
AddRelay ==
    /\ Len(relays) < MaxRelays
    /\ \E relay \in CandidateRelays :
          /\ relays' = Append(relays, relay)
          /\ relay_map' = [relay_map EXCEPT ![relay.address] = Len(relays) + 1]
    /\ weighted_index' = NoIndex
    /\ synced' = FALSE
    /\ UNCHANGED <<sybil_resistance, min_stake, reputation_manager, selection, removed_any>>
    /\ UNCHANGED outsideLottery

\* remove_relay
RemoveRelay ==
    /\ \E address \in Addresses :
          IF relay_map[address] # 0
          THEN LET left == RemoveAt(relays, relay_map[address])
               IN /\ relays' = left
                  /\ relay_map' = RebuiltMap(left)
                  /\ weighted_index' = IndexAfterRemove(weighted_index)
                  /\ removed_any' = TRUE
          ELSE UNCHANGED <<relays, relay_map, weighted_index, removed_any>>
    /\ UNCHANGED <<sybil_resistance, min_stake, reputation_manager, selection, synced>>
    /\ UNCHANGED outsideLottery

\* select_relay
SelectRelay ==
    /\ IF ~EnsureOk
       THEN selection' = Selected("select_relay", 1, "err", <<>>)
       ELSE \E index \in Samples(EnsuredIndex.weights) :
               selection' = AddressesAt("select_relay", 1, <<index>>)
    /\ weighted_index' = EnsuredIndex
    /\ UNCHANGED <<relays, relay_map, sybil_resistance, min_stake, reputation_manager,
                   synced, removed_any>>
    /\ UNCHANGED outsideLottery

\* select_relays: with replacement
SelectRelays ==
    /\ \E count \in 0..MaxSelect :
          IF ~EnsureOk
          THEN selection' = Selected("select_relays", count, "err", <<>>)
          ELSE \E indices \in [1..count -> Samples(EnsuredIndex.weights)] :
                  selection' = AddressesAt("select_relays", count, indices)
    /\ weighted_index' = EnsuredIndex
    /\ UNCHANGED <<relays, relay_map, sybil_resistance, min_stake, reputation_manager,
                   synced, removed_any>>
    /\ UNCHANGED outsideLottery

\* select_unique_relays: without replacement
SelectUniqueRelays ==
    /\ \E count \in 0..(MaxRelays + 1) :
          IF count > Len(relays)
          THEN /\ selection' = Selected("select_unique_relays", count, "err", <<>>)
               /\ UNCHANGED weighted_index
          ELSE /\ weighted_index' = EnsuredIndex
               /\ IF ~EnsureOk
                  THEN selection' = Selected("select_unique_relays", count, "err", <<>>)
                  ELSE \E indices \in UniqueDraws([i \in 1..Len(relays) |-> i], count) :
                          selection' =
                              IF indices = <<0>>
                              THEN Selected("select_unique_relays", count, "err", <<>>)
                              ELSE AddressesAt("select_unique_relays", count, indices)
    /\ UNCHANGED <<relays, relay_map, sybil_resistance, min_stake, reputation_manager,
                   synced, removed_any>>
    /\ UNCHANGED outsideLottery

\* select_relay_with_proof (feature vrf): with a VRF key pair, which
\* with_config creates when sybil_resistance is set, the index is
\* random_value % relays.len(); without one it is select_relay
SelectRelayWithProof ==
    /\ IF ~EnsureOk
       THEN selection' = Selected("select_relay_with_proof", 1, "err", <<>>)
       ELSE IF sybil_resistance
            THEN IF relays = <<>>
                 THEN selection' = Selected("select_relay_with_proof", 1, "panic", <<>>)
                 ELSE \E index \in 1..Len(relays) :
                         selection' = AddressesAt("select_relay_with_proof", 1, <<index>>)
            ELSE \E index \in Samples(EnsuredIndex.weights) :
                    selection' = AddressesAt("select_relay_with_proof", 1, <<index>>)
    /\ weighted_index' = EnsuredIndex
    /\ UNCHANGED <<relays, relay_map, sybil_resistance, min_stake, reputation_manager,
                   synced, removed_any>>
    /\ UNCHANGED outsideLottery

\* sync_with_reputation_manager, for one relay: the weight is touched only
\* for a node the lottery's ReputationManager knows
SyncedRelay(relay) ==
    LET node_rep == reputation_manager[relay.address]
    IN IF ~node_rep.present THEN relay
       ELSE IF sybil_resistance /\ node_rep.stake < min_stake
            THEN [relay EXCEPT !.weight = 100]
            ELSE NewWeightedRelay(relay.address, node_rep.reputation,
                                  node_rep.performance, node_rep.stake)

\* sync_with_reputation_manager; the manager exists when with_config was
\* given sybil_resistance, and no method of RelayLottery adds a node to it
SyncWithReputationManager ==
    /\ IF sybil_resistance
       THEN /\ relays' = [i \in 1..Len(relays) |-> SyncedRelay(relays[i])]
            /\ weighted_index' = NoIndex
       ELSE UNCHANGED <<relays, weighted_index>>
    /\ synced' = TRUE
    /\ UNCHANGED <<relay_map, sybil_resistance, min_stake, reputation_manager, selection,
                   removed_any>>
    /\ UNCHANGED outsideLottery

LotteryNext ==
    \/ AddRelay
    \/ RemoveRelay
    \/ SelectRelay
    \/ SelectRelays
    \/ SelectUniqueRelays
    \/ SelectRelayWithProof
    \/ SyncWithReputationManager

\* --- cost_of_forgery ---
AttackerStakes == {0, 329, 330, 659, 660, 990, 991, 1000, 1980, 1981, 2000, 4000}

\* an f64 that is a ratio of two integers
Ratio(num, den) == [num |-> num, den |-> den]
RatioLeq(x, y) == x.num * y.den <= y.num * x.den

RECURSIVE SumStakes(_)
SumStakes(rs) == IF rs = <<>> THEN 0 ELSE Head(rs).stake + SumStakes(Tail(rs))

\* attacker_probability >= 0.33
Prohibitive_Never(attacker_stake, total_stake) == FALSE

Prohibitive(attacker_stake, total_stake) == attacker_stake * 100 >= 33 * total_stake

\* cost_of_forgery on relays rs
cost_of_forgery(sybil, rs, attacker_stake) ==
    LET total_stake == SumStakes(rs)
    IN IF ~sybil THEN Ratio(0, 1)
       ELSE IF total_stake = 0 THEN Ratio(0, 1)
       ELSE IF Prohibitive(attacker_stake, total_stake)
            THEN \* 1.0 / (1.0 - attacker_probability).max(0.01)
                 IF (total_stake - attacker_stake) * 100 >= total_stake
                 THEN Ratio(total_stake, total_stake - attacker_stake)
                 ELSE Ratio(100, 1)
            ELSE Ratio(attacker_stake, total_stake)

NoForgery ==
    [done |-> FALSE, sybil |-> FALSE, total_stake |-> 0,
     cost |-> [a \in AttackerStakes |-> Ratio(0, 1)]]

\* --- LotteryProof::verify and verify_lottery_proof (feature vrf) ---
Seeds == {<<>>, <<1>>, <<2>>}

\* the proof returned by the last select_relay_with_proof, had it been given
\* `seed`: vrf_proof is Some(vec![]) with a key pair and None without
DrawnProof(seed) ==
    [vrf_proof |-> IF sybil_resistance THEN "Some" ELSE "None",
     seed |-> seed, selected |-> selection.addrs, origin |-> "drawn"]

\* what a caller can hand to verify_lottery_proof: a drawn proof, one whose
\* seed or selected addresses were altered afterwards, and one made by a
\* lottery with another VRF key; `origin` records which
GivenProofs ==
    LET drawn == IF selection.op = "select_relay_with_proof" /\ selection.outcome = "ok"
                 THEN {DrawnProof(seed) : seed \in Seeds}
                 ELSE {}
        reseeded(d) == {[d EXCEPT !.seed = seed, !.origin = "seed_altered"] :
                           seed \in Seeds \ {d.seed}}
        redirected(d) == {[d EXCEPT !.selected = <<a>>, !.origin = "selected_altered"] :
                             a \in {x \in Addresses : <<x>> # d.selected}}
    IN drawn
       \cup UNION {reseeded(d) : d \in drawn}
       \cup UNION {redirected(d) : d \in drawn}
       \cup {[vrf_proof |-> "Some", seed |-> seed, selected |-> <<a>>, origin |-> "other_key"] :
                seed \in Seeds, a \in Addresses}

\* LotteryProof::verify: the key is not used
verify(given, vrf_public_key) ==
    given.vrf_proof = "Some" /\ given.seed # <<>> /\ given.selected # <<>>

NoVerdict ==
    [given |-> [vrf_proof |-> "None", seed |-> <<>>, selected |-> <<>>, origin |-> "none"],
     accepted |-> FALSE]

AuditIdle ==
    /\ forgery = NoForgery
    /\ verdict = NoVerdict

\* cost_of_forgery, called with every attacker stake
CostOfForgery ==
    /\ forgery' = [done |-> TRUE, sybil |-> sybil_resistance,
                   total_stake |-> SumStakes(relays),
                   cost |-> [a \in AttackerStakes |->
                                cost_of_forgery(sybil_resistance, relays, a)]]
    /\ UNCHANGED verdict
    /\ UNCHANGED outsideAudit

\* verify_lottery_proof
VerifyLotteryProof ==
    /\ \E given \in GivenProofs :
          verdict' = [given |-> given, accepted |-> verify(given, "this")]
    /\ UNCHANGED forgery
    /\ UNCHANGED outsideAudit

\* the operations that change the stakes, and cost_of_forgery
ForgeryNext ==
    \/ AddRelay
    \/ RemoveRelay
    \/ SyncWithReputationManager
    \/ CostOfForgery

\* the operations that change the relays, the draw with proof, and its check
ProofNext ==
    \/ AddRelay
    \/ RemoveRelay
    \/ SelectRelayWithProof
    \/ VerifyLotteryProof

\* --- WeightedRelay::new and WeightedRelay::update_reputation ---
\* update_reputation calls on the pair
MaxUpdates == 1

PairReputations == {0, 10, 50, 80, 100}
PairPerformances == {0, 50}
PairStakes == {0, 1, 1000}

\* update_reputation with ALPHA = 0.1; exact in percent for a reputation
\* that is a multiple of 10
update_reputation(relay, success) ==
    LET moved == IF success
                 THEN relay.reputation + (100 - relay.reputation) \div 10
                 ELSE relay.reputation - relay.reputation \div 10
        reputation == clamp(moved, 0, 100)
    IN [relay EXCEPT !.reputation = reputation,
                     !.weight = CombinedWeight(reputation, relay.performance, relay.stake)]

\* update_relay_reputation: the cached weighted index after the update
IndexAfterUpdate_Kept(index) == index

IndexAfterUpdate(index) == NoIndex

\* update_relay_reputation on a lottery; the update is applied to relays
\* whose reputation is still a multiple of 10 percent, where
\* update_reputation is exact
LotteryUpdateRelayReputation ==
    /\ \E address \in Addresses, success \in BOOLEAN :
          LET index == relay_map[address]
          IN IF index # 0 /\ index <= Len(relays)
             THEN /\ relays[index].reputation % 10 = 0
                  /\ relays' = [relays EXCEPT ![index] = update_reputation(@, success)]
                  /\ weighted_index' = IndexAfterUpdate(weighted_index)
             ELSE UNCHANGED <<relays, weighted_index>>
    /\ UNCHANGED <<relay_map, sybil_resistance, min_stake, reputation_manager, selection,
                   synced, removed_any>>
    /\ UNCHANGED outsideLottery

PairIdle ==
    /\ pair = [i \in 1..2 |-> NewWeightedRelay("a1", 80, 50, 1000)]
    /\ pair_updates = 0

\* WeightedRelay::new, twice, with the same performance and stake
PairInit ==
    /\ \E r1 \in PairReputations, r2 \in PairReputations,
          p \in PairPerformances, st \in PairStakes :
          pair = <<NewWeightedRelay("a1", r1, p, st), NewWeightedRelay("a2", r2, p, st)>>
    /\ pair_updates = 0

\* WeightedRelay::update_reputation on one of the two
UpdateRelayReputation ==
    /\ pair_updates < MaxUpdates
    /\ \E i \in 1..2, success \in BOOLEAN :
          pair' = [pair EXCEPT ![i] = update_reputation(pair[i], success)]
    /\ pair_updates' = pair_updates + 1
    /\ UNCHANGED outsidePair

PairNext == UpdateRelayReputation

\* ------------------------------------------------------------------------
\* server/tcp.rs: the read loop of handle_connection, in bytes
\* ------------------------------------------------------------------------
\* frames a peer begins on one connection
MaxRxFrames == 2

\* lib.rs: pub const MAX_PACKET_SIZE
MAX_PACKET_SIZE == 2048

\* payload bytes a peer writes at a time
ChunkBytes == 1024

\* lengths a peer declares in the 4-byte prefix of a data frame
FrameLens == {0, MAX_PACKET_SIZE, MAX_PACKET_SIZE + 1, 2 * MAX_PACKET_SIZE}

\* bytes of the frames with the given declared lengths, prefixes included
RECURSIVE FrameBytes(_)
FrameBytes(lengths) ==
    IF lengths = <<>> THEN 0 ELSE 4 + Head(lengths) + FrameBytes(Tail(lengths))

\* while buffer.len() >= 4: read the prefix; break if buffer.len() <
\* 4 + length, else split_to(4 + length) and submit the packet. The buffer
\* starts at a frame boundary, so the prefix read is that of the oldest
\* frame not yet split off.
RECURSIVE ProcessComplete(_, _, _)
ProcessComplete(len, lengths, done) ==
    IF len >= 4 /\ len >= 4 + Head(lengths)
    THEN ProcessComplete(len - (4 + Head(lengths)), Tail(lengths), Append(done, Head(lengths)))
    ELSE [buffer |-> len, frames |-> lengths, submitted |-> done]

RxIdle ==
    /\ rx_frames = <<>>
    /\ rx_sent = 0
    /\ rx_buffer = 0
    /\ rx_submitted = <<>>
    /\ rx_started = 0

\* the peer writes the length prefix of a new frame
PeerBeginsFrame ==
    /\ rx_started < MaxRxFrames
    /\ rx_sent = FrameBytes(rx_frames)
    /\ \E length \in FrameLens :
          /\ rx_frames' = Append(rx_frames, length)
          /\ rx_sent' = rx_sent + 4
    /\ rx_started' = rx_started + 1
    /\ UNCHANGED <<rx_buffer, rx_submitted>>
    /\ UNCHANGED outsideRx

\* the peer writes the next bytes of the payload it has declared
PeerWritesPayload ==
    /\ rx_sent < FrameBytes(rx_frames)
    /\ LET missing == FrameBytes(rx_frames) - rx_sent
       IN rx_sent' = rx_sent + (IF missing < ChunkBytes THEN missing ELSE ChunkBytes)
    /\ UNCHANGED <<rx_frames, rx_buffer, rx_submitted, rx_started>>
    /\ UNCHANGED outsideRx

\* one turn of the loop that received bytes: read_buf appends what has
\* arrived (all of it, or the first ChunkBytes) to the buffer, then every
\* complete frame is split off and submitted
ReadBuf ==
    /\ rx_sent > rx_buffer
    /\ \E n \in {rx_sent - rx_buffer, ChunkBytes} :
          /\ n <= rx_sent - rx_buffer
          /\ LET after == ProcessComplete(rx_buffer + n, rx_frames, <<>>)
             IN /\ rx_buffer' = after.buffer
                /\ rx_frames' = after.frames
                /\ rx_sent' = rx_sent - (FrameBytes(rx_frames) - FrameBytes(after.frames))
                /\ rx_submitted' = rx_submitted \o after.submitted
    /\ UNCHANGED rx_started
    /\ UNCHANGED outsideRx

\* ------------------------------------------------------------------------
\* core/reputation.rs, core/relay_lottery.rs: the ways to obtain a
\* ReputationManager
\* ------------------------------------------------------------------------
\* days a node stays inactive
MaxInactiveDays == 4
\* apply_decay_all calls that touch the node
MaxDecayEvents == 3

\* rates are in percent
\* ReputationManager::new
ReputationManager_new ==
    [built |-> "new", embedded |-> FALSE, decay_rate |-> 99, min_reputation_threshold |-> 50]

\* ReputationManager::with_threshold
ReputationManager_with_threshold(min_threshold) ==
    [built |-> "with_threshold", embedded |-> FALSE, decay_rate |-> 99,
     min_reputation_threshold |-> min_threshold]

\* #[derive(Default)]: every field is the default of its type
ReputationManager_default ==
    [built |-> "default", embedded |-> FALSE, decay_rate |-> 0, min_reputation_threshold |-> 0]

\* RelayLottery::with_vrf and with_config(true, _): Some(ReputationManager::default()),
\* private to the lottery
EmbeddedManager(how) == [ReputationManager_default EXCEPT !.built = how, !.embedded = TRUE]

Managers ==
    {ReputationManager_new, ReputationManager_default,
     EmbeddedManager("with_vrf"), EmbeddedManager("with_config")}
    \cup {ReputationManager_with_threshold(t) : t \in {0, 50}}

\* decay_rate.powi(days_inactive), in millionths, for days_inactive > 0
PowiOf(rate, days_inactive) ==
    CASE rate = 99 -> DecayFactor[days_inactive]
      [] rate = 0 -> 0

NoDecay == [done |-> FALSE, before |-> 0, days_inactive |-> 0, after |-> 0]

MgrInitWith(m) ==
    /\ mgr = [manager |-> m, node |-> NoReputation]
    /\ mgr_today = 0
    /\ mgr_decay = NoDecay

MgrIdle == MgrInitWith(ReputationManager_new)

MgrInit == \E m \in Managers : MgrInitWith(m)

\* add_node; the manager embedded in a lottery has no caller of add_node
MgrAddNode ==
    /\ ~mgr.manager.embedded
    /\ ~mgr.node.present
    /\ mgr' = [mgr EXCEPT !.node = NewReputation(mgr_today)]
    /\ UNCHANGED <<mgr_today, mgr_decay>>
    /\ UNCHANGED outsideMgr

\* a day passes without activity of the node
MgrDayPasses ==
    /\ mgr_today < MaxInactiveDays
    /\ mgr_today' = mgr_today + 1
    /\ UNCHANGED <<mgr, mgr_decay>>
    /\ UNCHANGED outsideMgr

\* apply_decay_all, with the manager's decay_rate; sync_with_reputation_manager
\* calls it on the embedded manager
MgrApplyDecayAll ==
    /\ mgr.node.decay_events < MaxDecayEvents
    /\ LET rep == mgr.node
           days_inactive == days_since_active(rep, mgr_today)
       IN IF rep.present /\ days_inactive > 0
          THEN LET new_points ==
                       (rep.reputation_points * PowiOf(mgr.manager.decay_rate, days_inactive))
                           \div 1000000
                   points == clamp(new_points, 0, 200)
               IN /\ mgr' = [mgr EXCEPT !.node =
                         [rep EXCEPT !.reputation_points = points,
                                     !.reputation = Normalized(points),
                                     !.decay_events = @ + 1]]
                  /\ mgr_decay' = [done |-> TRUE, before |-> rep.reputation_points,
                                   days_inactive |-> days_inactive, after |-> points]
          ELSE UNCHANGED <<mgr, mgr_decay>>
    /\ UNCHANGED mgr_today
    /\ UNCHANGED outsideMgr

\* ------------------------------------------------------------------------
\* server/http.rs
\* ------------------------------------------------------------------------
\* connections the server accepts in one run
MaxHttpRequests == 3

\* the tasks run_server spawns, one per accepted connection
HttpTasks == {"h1", "h2"}

\* the routed (method, path) pairs of handle_request
Endpoints == {"GET /status", "GET /mixnodes", "POST /deploy", "GET /metrics"}

\* the handlers that call an AppState method which locks mixnodes
\* (total_connections, avg_latency_ms, total_packets_processed) while
\* their own guard on mixnodes is alive
LocksAgain(endpoint) == endpoint \in {"GET /status", "GET /metrics"}

NoRequest == [endpoint |-> "none", pc |-> "idle"]

\* AppState::new
HttpIdle ==
    /\ http_lock = "free"
    /\ http_poisoned = FALSE
    /\ http_mixnodes = 0
    /\ http_req = [h \in HttpTasks |-> NoRequest]
    /\ http_accepted = 0

\* run_server: accept, spawn handle_request; the request line is read and
\* routed
HttpAccept(h) ==
    /\ http_accepted < MaxHttpRequests
    /\ http_req[h].pc \in {"idle", "answered"}
    /\ \E endpoint \in Endpoints :
          http_req' = [http_req EXCEPT ![h] = [endpoint |-> endpoint, pc |-> "lock"]]
    /\ http_accepted' = http_accepted + 1
    /\ UNCHANGED <<http_lock, http_poisoned, http_mixnodes>>
    /\ UNCHANGED outsideHttp

\* state.mixnodes.lock().unwrap() at the head of a handler: blocks while
\* another task holds the Mutex, panics when it is poisoned
HttpLock(h) ==
    /\ http_req[h].pc = "lock"
    /\ http_lock = "free"
    /\ IF http_poisoned
       THEN /\ http_req' = [http_req EXCEPT ![h].pc = "panicked"]
            /\ UNCHANGED http_lock
       ELSE /\ http_req' = [http_req EXCEPT ![h].pc = "locked"]
            /\ http_lock' = h
    /\ UNCHANGED <<http_poisoned, http_mixnodes, http_accepted>>
    /\ UNCHANGED outsideHttp

\* the rest of a handler, up to the drop of its guard. A handler that locks
\* mixnodes again on the thread that holds it either never returns from
\* lock() or panics there (std::sync::Mutex leaves open which); the panic
\* unwinds through the guard, which poisons and releases the Mutex.
HttpHandle(h) ==
    /\ http_req[h].pc = "locked"
    /\ IF LocksAgain(http_req[h].endpoint)
       THEN \/ /\ http_req' = [http_req EXCEPT ![h].pc = "deadlocked"]
               /\ UNCHANGED <<http_lock, http_poisoned>>
            \/ /\ http_req' = [http_req EXCEPT ![h].pc = "panicked"]
               /\ http_lock' = "free"
               /\ http_poisoned' = TRUE
       ELSE /\ http_req' = [http_req EXCEPT ![h].pc = "respond"]
            /\ http_lock' = "free"
            /\ UNCHANGED http_poisoned
    /\ http_mixnodes' =
          IF http_req[h].endpoint = "POST /deploy" THEN http_mixnodes + 1 ELSE http_mixnodes
    /\ UNCHANGED http_accepted
    /\ UNCHANGED outsideHttp

\* write_all and flush of the response
HttpRespond(h) ==
    /\ http_req[h].pc = "respond"
    /\ http_req' = [http_req EXCEPT ![h].pc = "answered"]
    /\ UNCHANGED <<http_lock, http_poisoned, http_mixnodes, http_accepted>>
    /\ UNCHANGED outsideHttp

\* ------------------------------------------------------------------------
\* cover.rs
\* ------------------------------------------------------------------------
\* update_real_traffic_stats calls in one run
MaxRealPackets == 3
\* cover packets generated in one run
MaxCoverPackets == 3

\* sizes of the real packets reported, in bytes
RealSizes == {0, 512, 1024}

\* CoverTrafficConfig::default with `enabled` either way; the overhead
\* ceiling and the size variability are in percent
CoverConfigs ==
    [enabled : BOOLEAN, packet_size : {1024}, size_variability : {20},
     max_bandwidth_overhead : {5}]

\* TrafficStatistics::new; avg_packet_size is total_size / packet_count
NewTrafficStatistics == [packet_count |-> 0, total_size |-> 0]

\* the running average after one more packet: the mean of all sizes
RecordPacket(traffic, packet_size) ==
    [packet_count |-> traffic.packet_count + 1, total_size |-> traffic.total_size + packet_size]

\* calculate_bandwidth_overhead() > max_bandwidth_overhead, where the overhead
\* is 0.0 without real traffic and cover_bytes / real_bytes otherwise
OverheadExceeded(cover_bytes, traffic, max_percent) ==
    IF traffic.packet_count = 0 THEN FALSE
    ELSE IF traffic.total_size = 0 THEN FALSE
    ELSE cover_bytes * 100 > max_percent * traffic.total_size

\* values of rng.gen::<f64>() in [0, 1), in percent
RngDraws == {0, 50}

\* generate_realistic_packet_size for one draw of the rng:
\* ((base_size + offset).max(64.0)) as usize
RealisticPacketSize(traffic, c, draw) ==
    LET has_avg == traffic.packet_count > 0 /\ traffic.total_size > 0
        num == IF has_avg THEN traffic.total_size ELSE c.packet_size
        den == IF has_avg THEN traffic.packet_count ELSE 1
        \* base_size + (draw - 0.5) * 2 * base_size * size_variability, over den * 5000
        scaled == num * (5000 + (draw - 50) * c.size_variability)
        final_size == scaled \div (den * 5000)
    IN IF final_size < 64 THEN 64 ELSE final_size

\* AdvancedCoverTrafficGenerator::new
CoverInitWith(c) ==
    /\ cover_config = c
    /\ packets_sent = 0
    /\ bytes_sent = 0
    /\ real_traffic_stats = NewTrafficStatistics
    /\ cover_traffic_stats = NewTrafficStatistics
    /\ cover_packet = -1

CoverIdle ==
    CoverInitWith([enabled |-> FALSE, packet_size |-> 1024, size_variability |-> 20,
                   max_bandwidth_overhead |-> 5])

CoverInit == \E c \in CoverConfigs : CoverInitWith(c)

\* update_real_traffic_stats
UpdateRealTrafficStats ==
    /\ real_traffic_stats.packet_count < MaxRealPackets
    /\ \E packet_size \in RealSizes :
          real_traffic_stats' = RecordPacket(real_traffic_stats, packet_size)
    /\ UNCHANGED <<cover_config, packets_sent, bytes_sent, cover_traffic_stats, cover_packet>>
    /\ UNCHANGED outsideCover

\* generate_cover_packet
GenerateCoverPacket ==
    /\ packets_sent < MaxCoverPackets
    /\ IF ~cover_config.enabled
       THEN /\ cover_packet' = -1
            /\ UNCHANGED <<packets_sent, bytes_sent, cover_traffic_stats>>
       ELSE IF OverheadExceeded(bytes_sent, real_traffic_stats,
                                cover_config.max_bandwidth_overhead)
       THEN /\ cover_packet' = -1
            /\ UNCHANGED <<packets_sent, bytes_sent, cover_traffic_stats>>
       ELSE \E draw \in RngDraws :
               LET packet_size == RealisticPacketSize(real_traffic_stats, cover_config, draw)
               IN /\ cover_packet' = packet_size
                  /\ cover_traffic_stats' = RecordPacket(cover_traffic_stats, packet_size)
                  /\ packets_sent' = packets_sent + 1
                  /\ bytes_sent' = bytes_sent + packet_size
    /\ UNCHANGED <<cover_config, real_traffic_stats>>
    /\ UNCHANGED outsideCover

CoverNext ==
    \/ UpdateRealTrafficStats
    \/ GenerateCoverPacket

\* reset_stats
ResetStats ==
    /\ real_traffic_stats' = NewTrafficStatistics
    /\ cover_traffic_stats' = NewTrafficStatistics
    /\ packets_sent' = 0
    /\ bytes_sent' = 0
    /\ UNCHANGED <<cover_config, cover_packet>>
    /\ UNCHANGED outsideCover

\* the generator with its statistics reset at any time
StatsNext ==
    \/ CoverNext
    \/ ResetStats

\* ------------------------------------------------------------------------
\* core/compatibility.rs: PacketFormat, PacketAdapter, TranslationContext
\* ------------------------------------------------------------------------
\* bytes of payload in the packets handed to convert
MaxPayload == 2

PacketFormats == {"V1_0", "V1_1", "V1_2"}

\* PacketFormat::can_convert_to
can_convert_to(self, target) ==
    \/ self = target
    \/ <<self, target>> \in {<<"V1_2", "V1_1">>, <<"V1_2", "V1_0">>, <<"V1_1", "V1_0">>}

\* PacketAdapter::new: Ok or Err
PacketAdapter_new(source, target) ==
    IF ~can_convert_to(source, target) THEN "Err" ELSE "Ok"

\* TranslationContext::get_adapter
get_adapter(source_version, target_version) ==
    PacketAdapter_new(PacketFormat_for_version(source_version),
                      PacketFormat_for_version(target_version))

\* u32::to_be_bytes and u32::from_be_bytes
to_be_bytes(n) ==
    <<(n \div 16777216) % 256, (n \div 65536) % 256, (n \div 256) % 256, n % 256>>

from_be_bytes(b) == ((b[1] * 256 + b[2]) * 256 + b[3]) * 256 + b[4]

ConvertOk(bytes) == [tag |-> "Ok", bytes |-> bytes]
ConvertErr == [tag |-> "Err", bytes |-> <<>>]
NotConverted == [tag |-> "none", bytes |-> <<>>]

\* strip_v1_2_to_v1_1: drop the last 40 bytes
strip_v1_2_to_v1_1(data) ==
    IF Len(data) < 44 THEN ConvertErr
    ELSE ConvertOk(SubSeq(data, 1, Len(data) - 40))

\* strip_v1_1_to_v1_0 that keeps the length prefix it was given
strip_v1_1_to_v1_0_KeepLength(data) ==
    IF Len(data) < 6 THEN ConvertErr
    ELSE ConvertOk(SubSeq(data, 1, 4) \o SubSeq(data, 7, Len(data)))

\* strip_v1_1_to_v1_0: drop the two bytes of batch info and rewrite the length
strip_v1_1_to_v1_0(data) ==
    IF Len(data) < 6 THEN ConvertErr
    ELSE LET v1_0_packet == SubSeq(data, 1, 4) \o SubSeq(data, 7, Len(data))
             new_length == Len(v1_0_packet) - 4
         IN ConvertOk(to_be_bytes(new_length) \o SubSeq(v1_0_packet, 5, Len(v1_0_packet)))

\* strip_v1_2_to_v1_0: first to v1.1, then to v1.0
strip_v1_2_to_v1_0(data) ==
    LET v1_1_packet == strip_v1_2_to_v1_1(data)
    IN IF v1_1_packet.tag = "Err" THEN ConvertErr
       ELSE strip_v1_1_to_v1_0(v1_1_packet.bytes)

\* PacketAdapter::convert
convert(source_format, target_format, data) ==
    IF source_format = target_format THEN ConvertOk(data)
    ELSE IF source_format = "V1_2" /\ target_format = "V1_1" THEN strip_v1_2_to_v1_1(data)
    ELSE IF source_format = "V1_2" /\ target_format = "V1_0" THEN strip_v1_2_to_v1_0(data)
    ELSE IF source_format = "V1_1" /\ target_format = "V1_0" THEN strip_v1_1_to_v1_0(data)
    ELSE ConvertErr

\* the packets handed to convert: v1.1 packets with any declared length and
\* batch info, the same followed by the 40 bytes of the v1.2 fields, and
\* packets too short for a header
Payloads == {p \in UNION {[1..n -> {7, 255}] : n \in 0..MaxPayload} : TRUE}
LengthFields == {0, 1, 258}
BatchInfos == {<<0, 0>>, <<1, 2>>}
V1_2Fields == [i \in 1..40 |-> 0]
F11Packets ==
    {to_be_bytes(l) \o b \o p : l \in LengthFields, b \in BatchInfos, p \in Payloads}
PacketInputs ==
    F11Packets \cup {<<>>, <<0, 0, 0, 1, 9>>}
        \cup {to_be_bytes(1) \o <<1, 2>> \o <<7>> \o V1_2Fields}

NoRoundTrip == [done |-> FALSE, byte |-> -1, version |-> NoVersion]

CompatInitWith(source, target, data) ==
    /\ tc_source = source
    /\ tc_target = target
    /\ tc_adapter = "none"
    /\ packet_data = data
    /\ converted = NotConverted
    /\ round_trip = NoRoundTrip

CompatIdle == CompatInitWith(V1_2_0, V1_2_0, <<>>)

\* TranslationContext::new for every pair of versions, and every packet
CompatInit ==
    \E source \in ProtocolVersion, target \in ProtocolVersion, data \in PacketInputs :
        CompatInitWith(source, target, data)

\* TranslationContext::get_adapter
GetAdapter ==
    /\ tc_adapter = "none"
    /\ tc_adapter' = get_adapter(tc_source, tc_target)
    /\ UNCHANGED <<tc_source, tc_target, packet_data, converted, round_trip>>
    /\ UNCHANGED outsideCompat

\* PacketAdapter::convert on the adapter that get_adapter built
Convert ==
    /\ tc_adapter = "Ok" /\ converted = NotConverted
    /\ converted' = convert(PacketFormat_for_version(tc_source),
                            PacketFormat_for_version(tc_target), packet_data)
    /\ UNCHANGED <<tc_source, tc_target, tc_adapter, packet_data, round_trip>>
    /\ UNCHANGED outsideCompat

\* ProtocolVersion::decode_byte(v.encode_byte())
EncodeDecode ==
    /\ ~round_trip.done
    /\ round_trip' = [done |-> TRUE, byte |-> encode_byte(tc_source),
                      version |-> decode_byte(encode_byte(tc_source))]
    /\ UNCHANGED <<tc_source, tc_target, tc_adapter, packet_data, converted>>
    /\ UNCHANGED outsideCompat

CompatNext ==
    \/ GetAdapter
    \/ Convert
    \/ EncodeDecode

\* ------------------------------------------------------------------------
\* monitoring/exporters/betanet_client.rs: CircuitBreaker
\* ------------------------------------------------------------------------
\* the clock stops here, and failures are counted up to here
MaxClock == 32
MaxFailures == 6

\* CircuitBreaker::new
failure_threshold == 5
timeout_duration == 30

\* self.failure_count >= self.failure_threshold
ThresholdReached_Never(count) == FALSE

ThresholdReached(count) == count >= failure_threshold

\* last_failure.elapsed()
Elapsed(last_failure, at) == at - last_failure

NoAttempt == [made |-> FALSE, from |-> "Closed", count |-> 0, elapsed |-> -1,
              result |-> FALSE, to |-> "Closed"]

BreakerIdle ==
    /\ state = "Closed"
    /\ failure_count = 0
    /\ last_failure_time = -1
    /\ clock = 0
    /\ attempt = NoAttempt

\* record_success
RecordSuccess ==
    /\ state' = IF state = "HalfOpen" THEN "Closed" ELSE state
    /\ failure_count' = 0
    /\ last_failure_time' = -1
    /\ UNCHANGED <<clock, attempt>>
    /\ UNCHANGED outsideBreaker

\* record_failure
RecordFailure ==
    /\ failure_count < MaxFailures
    /\ failure_count' = failure_count + 1
    /\ last_failure_time' = clock
    /\ state' = IF ThresholdReached(failure_count + 1) /\ state = "Closed"
                THEN "Open" ELSE state
    /\ UNCHANGED <<clock, attempt>>
    /\ UNCHANGED outsideBreaker

\* can_attempt
CanAttempt ==
    /\ LET recovers == /\ state = "Open"
                       /\ last_failure_time # -1
                       /\ Elapsed(last_failure_time, clock) >= timeout_duration
           to == IF recovers THEN "HalfOpen" ELSE state
       IN /\ state' = to
          /\ attempt' = [made |-> TRUE, from |-> state, count |-> failure_count,
                         elapsed |-> IF last_failure_time = -1 THEN -1
                                     ELSE Elapsed(last_failure_time, clock),
                         result |-> state # "Open" \/ recovers, to |-> to]
    /\ UNCHANGED <<failure_count, last_failure_time, clock>>
    /\ UNCHANGED outsideBreaker

\* a second passes
ClockTick ==
    /\ clock < MaxClock
    /\ clock' = clock + 1
    /\ UNCHANGED <<state, failure_count, last_failure_time, attempt>>
    /\ UNCHANGED outsideBreaker

BreakerNext ==
    \/ RecordSuccess
    \/ RecordFailure
    \/ CanAttempt
    \/ ClockTick

\* ------------------------------------------------------------------------
\* monitoring/exporters/betanet_client.rs: BetanetClient::fetch_metrics
\* ------------------------------------------------------------------------
\* the clock of the client stops here, and advances in steps of TickSeconds
MaxFetchClock == 60
TickSeconds == 5

\* MetricsCache::new(10): the ttl in seconds
cache_ttl == 10

\* the three endpoints fetch_from_betanet queries
UpstreamEndpoints == {"metrics", "nodes", "stats"}

\* the endpoints that answer during one attempt
UpstreamStates == {{}, {"nodes"}, UpstreamEndpoints}

DefaultMetrics == [e \in UpstreamEndpoints |-> "default"]

\* fetch_from_betanet: the three results are joined, and the fields of a
\* failed endpoint take their defaults; the result is always Ok
fetch_from_betanet(up) ==
    [ok |-> TRUE, data |-> [e \in UpstreamEndpoints |-> IF e \in up THEN "real" ELSE "default"]]

\* fetch_with_retry: up to three attempts, sleeping 1 s and 2 s after the
\* first two failed ones; ups[i] is the state of the upstream at attempt i
fetch_with_retry(ups) ==
    LET first == fetch_from_betanet(ups[1])
        second == fetch_from_betanet(ups[2])
        third == fetch_from_betanet(ups[3])
    IN IF first.ok THEN [ok |-> TRUE, data |-> first.data, slept |-> 0]
       ELSE IF second.ok THEN [ok |-> TRUE, data |-> second.data, slept |-> 1]
       ELSE IF third.ok THEN [ok |-> TRUE, data |-> third.data, slept |-> 3]
       ELSE [ok |-> FALSE, data |-> DefaultMetrics, slept |-> 3]

\* CircuitBreaker::new
NewBreaker == [state |-> "Closed", failure_count |-> 0, last_failure_time |-> -1]

\* can_attempt at time t: the answer and the breaker it leaves
breaker_can_attempt(b, t) ==
    LET recovers == /\ b.state = "Open"
                    /\ b.last_failure_time # -1
                    /\ t - b.last_failure_time >= timeout_duration
    IN [result |-> b.state # "Open" \/ recovers,
        breaker |-> IF recovers THEN [b EXCEPT !.state = "HalfOpen"] ELSE b]

breaker_record_success(b) ==
    [state |-> IF b.state = "HalfOpen" THEN "Closed" ELSE b.state,
     failure_count |-> 0, last_failure_time |-> -1]

breaker_record_failure(b, t) ==
    [state |-> IF ThresholdReached(b.failure_count + 1) /\ b.state = "Closed"
               THEN "Open" ELSE b.state,
     failure_count |-> b.failure_count + 1, last_failure_time |-> t]

\* MetricsCache::new
NoCache == [some |-> FALSE, data |-> DefaultMetrics, cached_at |-> -1]

\* MetricsCache::get returns Some
CacheFresh(c, t) == c.some /\ t - c.cached_at < cache_ttl

NoCall ==
    [made |-> FALSE, cache_hit |-> FALSE, attempted |-> FALSE, all_failed |-> FALSE,
     recorded |-> "none", ok |-> FALSE]

\* BetanetClient::new
FetchIdle ==
    /\ fc_breaker = NewBreaker
    /\ fc_cache = NoCache
    /\ fc_now = 0
    /\ fc_call = NoCall
    /\ fc_streak = 0

\* fetch_metrics
FetchMetrics ==
    /\ IF CacheFresh(fc_cache, fc_now)
       THEN /\ fc_call' = [NoCall EXCEPT !.made = TRUE, !.cache_hit = TRUE, !.ok = TRUE]
            /\ UNCHANGED <<fc_breaker, fc_cache, fc_now, fc_streak>>
       ELSE LET can == breaker_can_attempt(fc_breaker, fc_now)
            IN IF ~can.result
               THEN /\ fc_breaker' = can.breaker
                    /\ fc_call' = [NoCall EXCEPT !.made = TRUE, !.ok = fc_cache.some]
                    /\ UNCHANGED <<fc_cache, fc_now, fc_streak>>
               ELSE \E ups \in [1..3 -> UpstreamStates] :
                       LET fetched == fetch_with_retry(ups)
                           at == fc_now + fetched.slept
                           all_failed == \A i \in 1..3 : ups[i] = {}
                       IN /\ fc_now' = at
                          /\ fc_streak' = IF all_failed THEN fc_streak + 1 ELSE 0
                          /\ IF fetched.ok
                             THEN /\ fc_breaker' = breaker_record_success(can.breaker)
                                  /\ fc_cache' = [some |-> TRUE, data |-> fetched.data,
                                                  cached_at |-> at]
                                  /\ fc_call' = [made |-> TRUE, cache_hit |-> FALSE,
                                                 attempted |-> TRUE, all_failed |-> all_failed,
                                                 recorded |-> "success", ok |-> TRUE]
                             ELSE /\ fc_breaker' = breaker_record_failure(can.breaker, at)
                                  /\ UNCHANGED fc_cache
                                  /\ fc_call' = [made |-> TRUE, cache_hit |-> FALSE,
                                                 attempted |-> TRUE, all_failed |-> all_failed,
                                                 recorded |-> "failure", ok |-> fc_cache.some]
    /\ UNCHANGED outsideFetch

\* TickSeconds pass between two calls
FetchTick ==
    /\ fc_now + TickSeconds <= MaxFetchClock
    /\ fc_now' = fc_now + TickSeconds
    /\ UNCHANGED <<fc_breaker, fc_cache, fc_call, fc_streak>>
    /\ UNCHANGED outsideFetch

\* ------------------------------------------------------------------------
\* monitoring/exporters/metric_collector.rs: TimeSeriesBuffer
\* ------------------------------------------------------------------------
\* pushes in one run, and the largest max_size given to new
MaxPushes == 4
MaxSize == 2

\* data points, told apart by their timestamp
DataPoints == {1, 2, 3}

\* VecDeque::pop_front on a possibly empty deque
pop_front(q) == IF q = <<>> THEN q ELSE Tail(q)

RingInitWith(size) ==
    /\ ts_data = <<>>
    /\ ts_max_size = size
    /\ ts_pushed = <<>>

RingIdle == RingInitWith(1)

\* TimeSeriesBuffer::new for every max_size
RingInit == \E size \in 0..MaxSize : RingInitWith(size)

\* push
Push ==
    /\ Len(ts_pushed) < MaxPushes
    /\ \E point \in DataPoints :
          /\ ts_data' = Append(IF Len(ts_data) >= ts_max_size THEN pop_front(ts_data)
                               ELSE ts_data, point)
          /\ ts_pushed' = Append(ts_pushed, point)
    /\ UNCHANGED ts_max_size
    /\ UNCHANGED outsideRing

RingNext == Push

\* ------------------------------------------------------------------------
\* vrf/poisson_delay.rs
\* ------------------------------------------------------------------------
\* the Durations offered to PoissonDelayGenerator::new, in microseconds
Durations == {0, 500, 1000, 1500, 2000}

\* arguments of with_jitter and adapt_to_network_load, in percent, and of
\* set_circuit_multiplier, in tenths
JitterArgs == {-100, 30, 90}
LoadArgs == {-50, 50, 150}
MultiplierArgs == {0, 10, 200}

\* -ln(1 - u) for u in [0, 1), in percent: the sample in units of the mean
ExpSamples == {0, 50, 100, 3600}
\* rng.gen::<f64>() in [0, 1), in percent
JitterDraws == {0, 50, 99}

\* PoissonDelayGenerator::new returns Ok
GeneratorAccepted(mean_delay, min_delay_, max_delay_) ==
    ~(mean_delay < min_delay_ \/ mean_delay > max_delay_)

NewGenerator(mean_delay, min_delay_, max_delay_) ==
    [base_mean_delay |-> mean_delay, current_mean_delay |-> mean_delay,
     min_delay |-> min_delay_, max_delay |-> max_delay_,
     jitter_pct |-> 10, load_adaptation_factor |-> 0, circuit_multiplier |-> 10]

\* 1.0 + (rng.gen() - 0.5) * 2.0 * jitter_pct, kept within [0.5, 1.5]; in percent
JitterFactor(jitter_pct, draw) ==
    IF jitter_pct > 0
    THEN clamp(100 + ((draw - 50) * 2 * jitter_pct) \div 100, 50, 150)
    ELSE 100

\* Duration::from_millis(clamped_ms as u64): the whole milliseconds of a
\* time given in microseconds, as a Duration in microseconds
FromMillis(us) == (us \div 1000) * 1000

\* next_delay for one sample of the exponential distribution and one jitter draw
NextDelayOf(g, sample, draw) ==
    LET base_delay == (g.current_mean_delay * sample) \div 100
        circuit_adjusted == (base_delay * g.circuit_multiplier) \div 10
        final_delay == (circuit_adjusted * JitterFactor(g.jitter_pct, draw)) \div 100
        at_least_min == IF final_delay > g.min_delay THEN final_delay ELSE g.min_delay
        clamped == IF at_least_min < g.max_delay THEN at_least_min ELSE g.max_delay
    IN FromMillis(clamped)

DelayIdle ==
    /\ generator = NewGenerator(1000, 1000, 1000)
    /\ delay = -1

\* PoissonDelayGenerator::new for every triple it accepts
DelayInit ==
    /\ \E mean_delay \in Durations, min_delay_ \in Durations, max_delay_ \in Durations :
          /\ GeneratorAccepted(mean_delay, min_delay_, max_delay_)
          /\ generator = NewGenerator(mean_delay, min_delay_, max_delay_)
    /\ delay = -1

\* with_jitter
WithJitter ==
    /\ \E jitter \in JitterArgs :
          generator' = [generator EXCEPT !.jitter_pct = clamp(jitter, 0, 50)]
    /\ UNCHANGED delay
    /\ UNCHANGED outsideDelay

\* adapt_to_network_load
AdaptToNetworkLoad ==
    /\ \E load \in LoadArgs :
          LET load_clamped == clamp(load, 0, 100)
          IN generator' = [generator EXCEPT
                 !.load_adaptation_factor = load_clamped,
                 !.current_mean_delay =
                     (generator.base_mean_delay * (10000 + load_clamped * load_clamped * 2))
                         \div 10000]
    /\ UNCHANGED delay
    /\ UNCHANGED outsideDelay

\* set_circuit_multiplier
SetCircuitMultiplier ==
    /\ \E multiplier \in MultiplierArgs :
          generator' = [generator EXCEPT !.circuit_multiplier = clamp(multiplier, 1, 100)]
    /\ UNCHANGED delay
    /\ UNCHANGED outsideDelay

\* next_delay
NextDelay ==
    /\ \E sample \in ExpSamples, draw \in JitterDraws :
          delay' = NextDelayOf(generator, sample, draw)
    /\ UNCHANGED generator
    /\ UNCHANGED outsideDelay

DelayNext ==
    \/ WithJitter
    \/ AdaptToNetworkLoad
    \/ SetCircuitMultiplier
    \/ NextDelay

\* ------------------------------------------------------------------------
\* SpecConn: handle_connection on both ends of one connection
\* ------------------------------------------------------------------------
NegInit ==
    /\ nv_our = NoVersion /\ nv_their = NoVersion
    /\ nv_result = NoResult /\ nv_reverse = NoResult

ConnInitWith(m, va, vb) ==
    /\ mode = m
    /\ ver = [s \in Sides |-> IF s = "A" THEN va ELSE vb]
    /\ pc = [s \in Sides |-> IF s = "B" /\ m = "raw" THEN "RAW_LEN"
                             ELSE IF s = "B" /\ m = "client" THEN "CLIENT_SEND"
                             ELSE "SEND_AD"]
    /\ result = [s \in Sides |-> "none"]
    /\ wire = [s \in Sides |-> <<>>]
    /\ closed = [s \in Sides |-> FALSE]
    /\ ad_length = [s \in Sides |-> -1]
    /\ ad_buf = [s \in Sides |-> -1]
    /\ ad_body_read = [s \in Sides |-> FALSE]
    /\ their_version = [s \in Sides |-> NoVersion]
    /\ negotiated = [s \in Sides |-> NoVersion]
    /\ sent_byte = [s \in Sides |-> -1]
    /\ confirm = [s \in Sides |-> -1]
    /\ buffer = [s \in Sides |-> <<>>]
    /\ loop_reads = [s \in Sides |-> 0]
    /\ submitted = [s \in Sides |-> 0]
    /\ written = [s \in Sides |-> <<>>]
    /\ raw_frames = 0
    /\ shutdown = FALSE
    /\ idle = [s \in Sides |-> 0]

ConnInit ==
    \E m \in {"node", "raw"}, va \in ProtocolVersion, vb \in ProtocolVersion :
        ConnInitWith(m, va, vb)

\* what a write of s puts on the wire of its peer
Deliver(s, chunks) ==
    IF closed[Peer(s)] \/ ~Receives(Peer(s))
    THEN wire
    ELSE [wire EXCEPT ![Peer(s)] = @ \o chunks]

\* version_handshake returns r to handle_connection
HandshakeReturns(s, r) ==
    /\ result' = [result EXCEPT ![s] = r]
    /\ pc' = [pc EXCEPT ![s] = IF ProceedsToDataLoop(r) THEN "LOOP" ELSE "DONE"]
    /\ closed' = [closed EXCEPT ![s] = ~ProceedsToDataLoop(r)]

\* step 1: send our advertisement
SendAd(s) ==
    /\ IsNode(s) /\ pc[s] = "SEND_AD"
    /\ \/ /\ wire' = Deliver(s, <<U32(EncodedAdLength), Body(ver[s])>>)
          /\ pc' = [pc EXCEPT ![s] = "RECV_LEN"]
          /\ UNCHANGED <<result, closed>>
       \/ /\ closed[Peer(s)]
          /\ HandshakeReturns(s, "io")
          /\ UNCHANGED wire
    /\ UNCHANGED <<mode, ver, ad_length, ad_buf, ad_body_read, their_version, negotiated,
                   sent_byte, confirm, buffer, loop_reads, submitted, written, raw_frames>>
    /\ idle' = [idle EXCEPT ![s] = 0]
    /\ UNCHANGED shutdown
    /\ UNCHANGED outsideConn

\* step 2a: read the 4-byte length, check it, allocate ad_buf
RecvLen(s) ==
    /\ IsNode(s) /\ pc[s] = "RECV_LEN"
    /\ \/ /\ wire[s] # <<>>
          /\ LET n == Head(wire[s]).v IN
                /\ ad_length' = [ad_length EXCEPT ![s] = n]
                /\ wire' = [wire EXCEPT ![s] = Tail(@)]
                /\ IF AdTooLarge(n)
                   THEN HandshakeReturns(s, "protocol") /\ UNCHANGED ad_buf
                   ELSE /\ ad_buf' = [ad_buf EXCEPT ![s] = n]
                        /\ pc' = [pc EXCEPT ![s] = "RECV_AD"]
                        /\ UNCHANGED <<result, closed>>
       \/ /\ wire[s] = <<>> /\ closed[Peer(s)]
          /\ HandshakeReturns(s, "io")
          /\ UNCHANGED <<wire, ad_length, ad_buf>>
    /\ UNCHANGED <<mode, ver, ad_body_read, their_version, negotiated,
                   sent_byte, confirm, buffer, loop_reads, submitted, written, raw_frames>>
    /\ idle' = [idle EXCEPT ![s] = 0]
    /\ UNCHANGED shutdown
    /\ UNCHANGED outsideConn

\* steps 2b-4: read and decode the advertisement, check compatibility,
\* negotiate to the lower version
RecvAd(s) ==
    /\ IsNode(s) /\ pc[s] = "RECV_AD"
    /\ \/ /\ wire[s] # <<>>
          /\ LET their == Head(wire[s]).c IN
                /\ wire' = [wire EXCEPT ![s] = Tail(@)]
                /\ ad_body_read' = [ad_body_read EXCEPT ![s] = TRUE]
                /\ IF their = NoVersion
                   THEN /\ HandshakeReturns(s, "protocol")
                        /\ UNCHANGED <<their_version, negotiated>>
                   ELSE /\ their_version' = [their_version EXCEPT ![s] = their]
                        /\ IF ~is_compatible_with(ver[s], their)
                           THEN HandshakeReturns(s, "protocol") /\ UNCHANGED negotiated
                           ELSE /\ negotiated' = [negotiated EXCEPT ![s] =
                                       IF VersionLess(ver[s], their) THEN ver[s] ELSE their]
                                /\ pc' = [pc EXCEPT ![s] = "SEND_NEGOTIATED"]
                                /\ UNCHANGED <<result, closed>>
       \/ /\ wire[s] = <<>> /\ closed[Peer(s)]
          /\ HandshakeReturns(s, "io")
          /\ UNCHANGED <<wire, ad_body_read, their_version, negotiated>>
    /\ UNCHANGED <<mode, ver, ad_length, ad_buf,
                   sent_byte, confirm, buffer, loop_reads, submitted, written, raw_frames>>
    /\ idle' = [idle EXCEPT ![s] = 0]
    /\ UNCHANGED shutdown
    /\ UNCHANGED outsideConn

\* step 5: send the negotiated byte
SendNegotiated(s) ==
    /\ IsNode(s) /\ pc[s] = "SEND_NEGOTIATED"
    /\ \/ /\ wire' = Deliver(s, <<Byte(encode_byte(negotiated[s]))>>)
          /\ sent_byte' = [sent_byte EXCEPT ![s] = encode_byte(negotiated[s])]
          /\ pc' = [pc EXCEPT ![s] = "RECV_CONFIRM"]
          /\ UNCHANGED <<result, closed>>
       \/ /\ closed[Peer(s)]
          /\ HandshakeReturns(s, "io")
          /\ UNCHANGED <<wire, sent_byte>>
    /\ UNCHANGED <<mode, ver, ad_length, ad_buf, ad_body_read, their_version, negotiated,
                   confirm, buffer, loop_reads, submitted, written, raw_frames>>
    /\ idle' = [idle EXCEPT ![s] = 0]
    /\ UNCHANGED shutdown
    /\ UNCHANGED outsideConn

\* step 6: receive and check the confirmation
RecvConfirm(s) ==
    /\ IsNode(s) /\ pc[s] = "RECV_CONFIRM"
    /\ \/ /\ wire[s] # <<>>
          /\ LET b == Head(wire[s]).v
                 their_negotiated == decode_byte(b) IN
                /\ wire' = [wire EXCEPT ![s] = Tail(@)]
                /\ confirm' = [confirm EXCEPT ![s] = b]
                /\ IF their_negotiated = NoVersion
                   THEN HandshakeReturns(s, "protocol")
                   ELSE IF ~ConfirmMatches(their_negotiated, negotiated[s])
                        THEN HandshakeReturns(s, "protocol")
                        ELSE HandshakeReturns(s, "ok")
       \/ /\ wire[s] = <<>> /\ closed[Peer(s)]
          /\ HandshakeReturns(s, "io")
          /\ UNCHANGED <<wire, confirm>>
    /\ UNCHANGED <<mode, ver, ad_length, ad_buf, ad_body_read, their_version, negotiated,
                   sent_byte, buffer, loop_reads, submitted, written, raw_frames>>
    /\ idle' = [idle EXCEPT ![s] = 0]
    /\ UNCHANGED shutdown
    /\ UNCHANGED outsideConn

\* the read loop: number of complete length-prefixed frames at the head of
\* the buffer (while buffer.len() >= 4 ... split_to(4 + length))
RECURSIVE CompleteFrames(_)
CompleteFrames(buf) ==
    IF Len(buf) >= 2 /\ buf[1].k = "u32" /\ buf[2].k = "body"
    THEN 1 + CompleteFrames(SubSeq(buf, 3, Len(buf)))
    ELSE 0

Repeat(x, n) == [i \in 1..n |-> x]

\* n processed packets as length-prefixed frames
RECURSIVE ResponseFrames(_)
ResponseFrames(n) ==
    IF n = 0 THEN <<>>
    ELSE <<U32(CHOOSE d \in DataLens : TRUE), Body(NoVersion)>> \o ResponseFrames(n - 1)

\* one turn of the read loop that received bytes: Ok(Ok(n)), n > 0.
\* Every complete frame is submitted to the pipeline, then up to MaxWrites
\* processed packets are written back.
ReadData(s) ==
    /\ IsNode(s) /\ pc[s] = "LOOP"
    /\ wire[s] # <<>>
    /\ \E n \in 1..Len(wire[s]) :
          LET buf == buffer[s] \o SubSeq(wire[s], 1, n)
              frames == CompleteFrames(buf)
              rest == [wire EXCEPT ![s] = SubSeq(@, n + 1, Len(@))]
          IN  /\ buffer' = [buffer EXCEPT ![s] = SubSeq(buf, 2 * frames + 1, Len(buf))]
              /\ submitted' = [submitted EXCEPT ![s] = @ + frames]
              /\ loop_reads' = [loop_reads EXCEPT ![s] = @ + 1]
              /\ \E processed \in 0..(MaxWrites - Len(written[s])) :
                    \/ /\ written' = [written EXCEPT ![s] =
                              @ \o Repeat(WrittenFormat(ver[s], negotiated[s]), processed)]
                       /\ wire' = [rest EXCEPT ![Peer(s)] =
                              IF closed[Peer(s)] \/ ~Receives(Peer(s)) THEN @
                              ELSE @ \o ResponseFrames(processed)]
                       /\ UNCHANGED <<pc, closed>>
                    \/ \* write_all / flush fails: break
                       /\ processed > 0 /\ closed[Peer(s)]
                       /\ wire' = rest
                       /\ pc' = [pc EXCEPT ![s] = "DONE"]
                       /\ closed' = [closed EXCEPT ![s] = TRUE]
                       /\ UNCHANGED written
    /\ UNCHANGED <<mode, ver, result, ad_length, ad_buf, ad_body_read, their_version,
                   negotiated, sent_byte, confirm, raw_frames>>
    /\ idle' = [idle EXCEPT ![s] = 0]
    /\ UNCHANGED shutdown
    /\ UNCHANGED outsideConn

\* Ok(Ok(0)): the peer closed the connection
ReadEof(s) ==
    /\ IsNode(s) /\ pc[s] = "LOOP"
    /\ wire[s] = <<>> /\ closed[Peer(s)]
    /\ pc' = [pc EXCEPT ![s] = "DONE"]
    /\ closed' = [closed EXCEPT ![s] = TRUE]
    /\ UNCHANGED <<mode, ver, result, wire, ad_length, ad_buf, ad_body_read, their_version,
                   negotiated, sent_byte, confirm, buffer, loop_reads, submitted, written,
                   raw_frames>>
    /\ idle' = [idle EXCEPT ![s] = 0]
    /\ UNCHANGED shutdown
    /\ UNCHANGED outsideConn

\* --- the raw peer at end B: any length, any body, any byte, any time ---
RawSend(from, chunks, to) ==
    /\ mode = "raw" /\ pc["B"] = from /\ ~closed["A"]
    /\ wire' = [wire EXCEPT !["A"] = @ \o chunks]
    /\ pc' = [pc EXCEPT !["B"] = to]
    /\ UNCHANGED <<mode, ver, result, closed, ad_length, ad_buf, ad_body_read, their_version,
                   negotiated, sent_byte, confirm, buffer, loop_reads, submitted, written>>
    /\ UNCHANGED <<shutdown, idle>>
    /\ UNCHANGED outsideConn

RawSendLen ==
    \E n \in AdLengths : RawSend("RAW_LEN", <<U32(n)>>, "RAW_BODY") /\ UNCHANGED raw_frames

RawSendBody ==
    \E c \in {ver["B"], NoVersion} :
        RawSend("RAW_BODY", <<Body(c)>>, "RAW_BYTE") /\ UNCHANGED raw_frames

RawSendByte ==
    \E b \in RawBytes : RawSend("RAW_BYTE", <<Byte(b)>>, "RAW_DATA") /\ UNCHANGED raw_frames

RawSendFrame ==
    /\ raw_frames < MaxFrames
    /\ \E d \in DataLens : RawSend("RAW_DATA", <<U32(d), Body(NoVersion)>>, "RAW_DATA")
    /\ raw_frames' = raw_frames + 1

RawClose ==
    /\ mode = "raw" /\ ~closed["B"]
    /\ closed' = [closed EXCEPT !["B"] = TRUE]
    /\ pc' = [pc EXCEPT !["B"] = "DONE"]
    /\ UNCHANGED <<mode, ver, result, wire, ad_length, ad_buf, ad_body_read, their_version,
                   negotiated, sent_byte, confirm, buffer, loop_reads, submitted, written,
                   raw_frames>>
    /\ UNCHANGED <<shutdown, idle>>
    /\ UNCHANGED outsideConn

\* --- TcpClient::send_packet at end B ---
\* the bytes handed to send_packet: by what ProtocolAdvertisement::decode makes
\* of them (NoVersion: not an advertisement)
ClientPackets == {NoVersion, V1_2_0}
ClientPacketLens == {8, 4097}

ClientUnchanged ==
    /\ UNCHANGED <<mode, ver, result, ad_length, ad_buf, ad_body_read, their_version,
                   negotiated, sent_byte, confirm, buffer, loop_reads, submitted, written,
                   shutdown, idle>>
    /\ UNCHANGED outsideConn

\* connect, then write_all of the length prefix and the packet; no handshake
ClientSendPacket ==
    /\ mode = "client" /\ pc["B"] = "CLIENT_SEND"
    /\ \/ /\ ~closed["A"]
          /\ \E n \in ClientPacketLens, c \in ClientPackets :
                wire' = [wire EXCEPT !["A"] = @ \o <<U32(n), Body(c)>>]
          /\ raw_frames' = raw_frames + 1
          /\ pc' = [pc EXCEPT !["B"] = "CLIENT_RECV_LEN"]
          /\ UNCHANGED closed
       \/ /\ closed["A"]
          /\ pc' = [pc EXCEPT !["B"] = "DONE"]
          /\ closed' = [closed EXCEPT !["B"] = TRUE]
          /\ UNCHANGED <<wire, raw_frames>>
    /\ ClientUnchanged

\* read_exact of the response length, then of the response: whatever the
\* server wrote first is the response; the stream is dropped on return
ClientReadResponse ==
    /\ mode = "client" /\ pc["B"] \in {"CLIENT_RECV_LEN", "CLIENT_RECV_BODY"}
    /\ \/ /\ wire["B"] # <<>>
          /\ wire' = [wire EXCEPT !["B"] = Tail(@)]
          /\ IF pc["B"] = "CLIENT_RECV_LEN"
             THEN pc' = [pc EXCEPT !["B"] = "CLIENT_RECV_BODY"] /\ UNCHANGED closed
             ELSE /\ pc' = [pc EXCEPT !["B"] = "DONE"]
                  /\ closed' = [closed EXCEPT !["B"] = TRUE]
       \/ /\ wire["B"] = <<>> /\ closed["A"]
          /\ pc' = [pc EXCEPT !["B"] = "DONE"]
          /\ closed' = [closed EXCEPT !["B"] = TRUE]
          /\ UNCHANGED wire
    /\ UNCHANGED raw_frames
    /\ ClientUnchanged

\* --- shutdown signal, time and the read timeout ---
ConnectionTimeout == MaxIdle - 1

\* s awaits a read on a stream that has nothing to deliver
Blocked(s) ==
    /\ IsNode(s)
    /\ pc[s] \in {"RECV_LEN", "RECV_AD", "RECV_CONFIRM", "LOOP"}
    /\ wire[s] = <<>>
    /\ ~closed[Peer(s)]

\* the reads wrapped in tokio::time::timeout(config.connection_timeout, ..):
\* only stream.read_buf of the data loop
ReadHasTimeout(s) == pc[s] = "LOOP"

\* TcpServer::stop: the shutdown signal is sent once
Stop ==
    /\ ~shutdown
    /\ shutdown' = TRUE
    /\ UNCHANGED <<mode, ver, pc, result, wire, closed, ad_length, ad_buf, ad_body_read,
                   their_version, negotiated, sent_byte, confirm, buffer, loop_reads,
                   submitted, written, raw_frames, idle>>
    /\ UNCHANGED outsideConn

\* the select! branch _ = shutdown_rx.recv() of the data loop: break
ShutdownBreak(s) ==
    /\ IsNode(s) /\ pc[s] = "LOOP"
    /\ shutdown
    /\ pc' = [pc EXCEPT ![s] = "DONE"]
    /\ closed' = [closed EXCEPT ![s] = TRUE]
    /\ idle' = [idle EXCEPT ![s] = 0]
    /\ UNCHANGED <<mode, ver, result, wire, ad_length, ad_buf, ad_body_read, their_version,
                   negotiated, sent_byte, confirm, buffer, loop_reads, submitted, written,
                   raw_frames, shutdown>>
    /\ UNCHANGED outsideConn

\* Err(_): the read of the data loop timed out: break
ReadTimeout(s) ==
    /\ Blocked(s) /\ ReadHasTimeout(s)
    /\ idle[s] >= ConnectionTimeout
    /\ pc' = [pc EXCEPT ![s] = "DONE"]
    /\ closed' = [closed EXCEPT ![s] = TRUE]
    /\ idle' = [idle EXCEPT ![s] = 0]
    /\ UNCHANGED <<mode, ver, result, wire, ad_length, ad_buf, ad_body_read, their_version,
                   negotiated, sent_byte, confirm, buffer, loop_reads, submitted, written,
                   raw_frames, shutdown>>
    /\ UNCHANGED outsideConn

\* one time unit passes for every waiting read; a read under a timeout does
\* not wait past its expiry
TimePasses ==
    /\ \E s \in Sides : Blocked(s) /\ idle[s] < MaxIdle
    /\ \A s \in Sides : Blocked(s) /\ ReadHasTimeout(s) => idle[s] < ConnectionTimeout
    /\ idle' = [s \in Sides |-> IF Blocked(s) /\ idle[s] < MaxIdle THEN idle[s] + 1
                                ELSE idle[s]]
    /\ UNCHANGED <<mode, ver, pc, result, wire, closed, ad_length, ad_buf, ad_body_read,
                   their_version, negotiated, sent_byte, confirm, buffer, loop_reads,
                   submitted, written, raw_frames, shutdown>>
    /\ UNCHANGED outsideConn

ConnNext ==
    \/ \E s \in Sides : SendAd(s)
    \/ \E s \in Sides : RecvLen(s)
    \/ \E s \in Sides : RecvAd(s)
    \/ \E s \in Sides : SendNegotiated(s)
    \/ \E s \in Sides : RecvConfirm(s)
    \/ \E s \in Sides : ReadData(s)
    \/ \E s \in Sides : ReadEof(s)
    \/ RawSendLen
    \/ RawSendBody
    \/ RawSendByte
    \/ RawSendFrame
    \/ RawClose

InitConn == ConnInit /\ NegInit /\ BatchIdle /\ RepInit /\ LotteryIdle /\ CoverIdle /\ DelayIdle /\ CompatIdle /\ AuditIdle /\ PairIdle /\ BreakerIdle /\ RingIdle /\ RxIdle /\ MgrIdle /\ HttpIdle /\ FetchIdle

SpecConn == InitConn /\ [][ConnNext]_vars

\* ------------------------------------------------------------------------
\* SpecServe: one connection task of a TcpServer facing an arbitrary peer,
\* with the shutdown signal, time and the read timeout
\* ------------------------------------------------------------------------
ServeInit ==
    \E vb \in {V1_2_0, V1_1_0} : ConnInitWith("raw", V1_2_0, vb)

\* a step of the connection task itself
TaskStep ==
    \E s \in Sides :
        \/ SendAd(s) \/ RecvLen(s) \/ RecvAd(s) \/ SendNegotiated(s) \/ RecvConfirm(s)
        \/ ReadData(s) \/ ReadEof(s) \/ ReadTimeout(s)

ServeNext ==
    \/ ConnNext
    \/ Stop
    \/ \E s \in Sides : ShutdownBreak(s)
    \/ \E s \in Sides : ReadTimeout(s)
    \/ TimePasses

InitServe ==
    ServeInit /\ NegInit /\ BatchIdle /\ RepInit /\ LotteryIdle /\ CoverIdle /\ DelayIdle /\ CompatIdle /\ AuditIdle /\ PairIdle /\ BreakerIdle /\ RingIdle /\ RxIdle /\ MgrIdle /\ HttpIdle /\ FetchIdle

SpecServe == InitServe /\ [][ServeNext]_vars

\* the runtime polls a task that can make progress, a ready shutdown branch
\* is eventually taken, and time advances; the peer is under no obligation
FairSpecServe ==
    /\ InitServe /\ [][ServeNext]_vars
    /\ WF_vars(TaskStep)
    /\ WF_vars(\E s \in Sides : ShutdownBreak(s))
    /\ WF_vars(TimePasses)

\* ------------------------------------------------------------------------
\* SpecClient: one connection task of a TcpServer facing either an arbitrary
\* peer or a TcpClient
\* ------------------------------------------------------------------------
ClientInit ==
    \E m \in {"raw", "client"} : ConnInitWith(m, V1_2_0, V1_2_0)

ClientNext ==
    \/ ServeNext
    \/ ClientSendPacket
    \/ ClientReadResponse

InitClient ==
    ClientInit /\ NegInit /\ BatchIdle /\ RepInit /\ LotteryIdle /\ CoverIdle /\ DelayIdle /\ CompatIdle /\ AuditIdle /\ PairIdle /\ BreakerIdle /\ RingIdle /\ RxIdle /\ MgrIdle /\ HttpIdle /\ FetchIdle

SpecClient == InitClient /\ [][ClientNext]_vars

\* ------------------------------------------------------------------------
\* SpecNegotiate: negotiate_version applied to every pair of versions
\* ------------------------------------------------------------------------
ConnIdle == ConnInitWith("node", V1_2_0, V1_2_0)

NegotiateInit ==
    /\ nv_our \in ProtocolVersion
    /\ nv_their \in ProtocolVersion
    /\ nv_result = NoResult
    /\ nv_reverse = NoResult

Negotiate ==
    /\ nv_result = NoResult
    /\ nv_result' = negotiate_version(nv_our, nv_their)
    /\ nv_reverse' = negotiate_version(nv_their, nv_our)
    /\ UNCHANGED <<nv_our, nv_their>>
    /\ UNCHANGED outsideNeg

NegotiateNext == Negotiate

InitNegotiate == NegotiateInit /\ ConnIdle /\ BatchIdle /\ RepInit /\ LotteryIdle /\ CoverIdle /\ DelayIdle /\ CompatIdle /\ AuditIdle /\ PairIdle /\ BreakerIdle /\ RingIdle /\ RxIdle /\ MgrIdle /\ HttpIdle /\ FetchIdle

SpecNegotiate == InitNegotiate /\ [][NegotiateNext]_vars

\* ------------------------------------------------------------------------
\* SpecBatch: one AdaptiveBatchProcessor used by several tasks
\* ------------------------------------------------------------------------
BatchNext ==
    \/ SubmitPacket
    \/ UpdateNetworkLoad
    \/ \E t \in Tasks : NextBatchStart(t)
    \/ \E t \in Tasks : NextBatchWake(t)
    \/ \E t \in Tasks : NextBatchCollect(t)
    \/ Tick

InitBatch == SmallBatchInit /\ ConnIdle /\ NegInit /\ RepInit /\ LotteryIdle /\ CoverIdle /\ DelayIdle /\ CompatIdle /\ AuditIdle /\ PairIdle /\ BreakerIdle /\ RingIdle /\ RxIdle /\ MgrIdle /\ HttpIdle /\ FetchIdle

SpecBatch == InitBatch /\ [][BatchNext]_vars

\* ------------------------------------------------------------------------
\* SpecAdapt: construction and load adaptation, for every accepted candidate
\* ------------------------------------------------------------------------
AdaptNext == UpdateNetworkLoad

InitAdapt == BatchInit /\ ConnIdle /\ NegInit /\ RepInit /\ LotteryIdle /\ CoverIdle /\ DelayIdle /\ CompatIdle /\ AuditIdle /\ PairIdle /\ BreakerIdle /\ RingIdle /\ RxIdle /\ MgrIdle /\ HttpIdle /\ FetchIdle

SpecAdapt == InitAdapt /\ [][AdaptNext]_vars

\* ------------------------------------------------------------------------
\* SpecRep: one ReputationManager over the days
\* ------------------------------------------------------------------------
InitRep == RepInit /\ ConnIdle /\ NegInit /\ BatchIdle /\ LotteryIdle /\ CoverIdle /\ DelayIdle /\ CompatIdle /\ AuditIdle /\ PairIdle /\ BreakerIdle /\ RingIdle /\ RxIdle /\ MgrIdle /\ HttpIdle /\ FetchIdle

SpecRep == InitRep /\ [][RepNext]_vars

\* ------------------------------------------------------------------------
\* SpecLottery: one RelayLottery
\* ------------------------------------------------------------------------
InitLottery == LotteryInit /\ ConnIdle /\ NegInit /\ BatchIdle /\ RepInit /\ CoverIdle /\ DelayIdle /\ CompatIdle /\ AuditIdle /\ PairIdle /\ BreakerIdle /\ RingIdle /\ RxIdle /\ MgrIdle /\ HttpIdle /\ FetchIdle

SpecLottery == InitLottery /\ [][LotteryNext]_vars

\* ------------------------------------------------------------------------
\* SpecCache: one RelayLottery whose relays are added, removed, updated and
\* synced between selections
\* ------------------------------------------------------------------------
CacheNext ==
    \/ AddRelay
    \/ RemoveRelay
    \/ LotteryUpdateRelayReputation
    \/ SyncWithReputationManager
    \/ SelectRelay

InitCache == LotteryInit /\ ConnIdle /\ NegInit /\ BatchIdle /\ RepInit /\ CoverIdle /\ DelayIdle /\ CompatIdle /\ AuditIdle /\ PairIdle /\ BreakerIdle /\ RingIdle /\ RxIdle /\ MgrIdle /\ HttpIdle /\ FetchIdle

SpecCache == InitCache /\ [][CacheNext]_vars

\* ------------------------------------------------------------------------
\* SpecRx: the receive buffer of one connection after the handshake
\* ------------------------------------------------------------------------
RxNext ==
    \/ PeerBeginsFrame
    \/ PeerWritesPayload
    \/ ReadBuf

InitRx == RxIdle /\ ConnIdle /\ NegInit /\ BatchIdle /\ RepInit /\ LotteryIdle /\ CoverIdle /\ DelayIdle /\ CompatIdle /\ AuditIdle /\ PairIdle /\ BreakerIdle /\ RingIdle /\ MgrIdle /\ HttpIdle /\ FetchIdle

SpecRx == InitRx /\ [][RxNext]_vars

\* ------------------------------------------------------------------------
\* SpecMgr: one ReputationManager, obtained in each possible way, and one
\* inactive node
\* ------------------------------------------------------------------------
MgrNext ==
    \/ MgrAddNode
    \/ MgrDayPasses
    \/ MgrApplyDecayAll

InitMgr == MgrInit /\ ConnIdle /\ NegInit /\ BatchIdle /\ RepInit /\ LotteryIdle /\ CoverIdle /\ DelayIdle /\ CompatIdle /\ AuditIdle /\ PairIdle /\ BreakerIdle /\ RingIdle /\ RxIdle /\ HttpIdle /\ FetchIdle

SpecMgr == InitMgr /\ [][MgrNext]_vars

\* ------------------------------------------------------------------------
\* SpecHttp: the admin HTTP server and its concurrent request tasks
\* ------------------------------------------------------------------------
HttpNext ==
    \/ \E h \in HttpTasks : HttpAccept(h)
    \/ \E h \in HttpTasks : HttpLock(h)
    \/ \E h \in HttpTasks : HttpHandle(h)
    \/ \E h \in HttpTasks : HttpRespond(h)

InitHttp == HttpIdle /\ ConnIdle /\ NegInit /\ BatchIdle /\ RepInit /\ LotteryIdle /\ CoverIdle /\ DelayIdle /\ CompatIdle /\ AuditIdle /\ PairIdle /\ BreakerIdle /\ RingIdle /\ RxIdle /\ MgrIdle /\ FetchIdle

SpecHttp == InitHttp /\ [][HttpNext]_vars

\* ------------------------------------------------------------------------
\* SpecFetch: one BetanetClient polled over time, the upstream failing or
\* answering at will
\* ------------------------------------------------------------------------
FetchNext ==
    \/ FetchMetrics
    \/ FetchTick

InitFetch == FetchIdle /\ ConnIdle /\ NegInit /\ BatchIdle /\ RepInit /\ LotteryIdle /\ CoverIdle /\ DelayIdle /\ CompatIdle /\ AuditIdle /\ PairIdle /\ BreakerIdle /\ RingIdle /\ RxIdle /\ MgrIdle /\ HttpIdle

SpecFetch == InitFetch /\ [][FetchNext]_vars

\* ------------------------------------------------------------------------
\* SpecCover: one AdvancedCoverTrafficGenerator
\* ------------------------------------------------------------------------
InitCover ==
    CoverInit /\ ConnIdle /\ NegInit /\ BatchIdle /\ RepInit /\ LotteryIdle /\ DelayIdle /\ CompatIdle /\ AuditIdle /\ PairIdle /\ BreakerIdle /\ RingIdle /\ RxIdle /\ MgrIdle /\ HttpIdle /\ FetchIdle

SpecCover == InitCover /\ [][CoverNext]_vars

\* ------------------------------------------------------------------------
\* SpecDelay: one PoissonDelayGenerator
\* ------------------------------------------------------------------------
InitDelay ==
    DelayInit /\ ConnIdle /\ NegInit /\ BatchIdle /\ RepInit /\ LotteryIdle /\ CoverIdle /\ CompatIdle /\ AuditIdle /\ PairIdle /\ BreakerIdle /\ RingIdle /\ RxIdle /\ MgrIdle /\ HttpIdle /\ FetchIdle

SpecDelay == InitDelay /\ [][DelayNext]_vars

\* ------------------------------------------------------------------------
\* SpecCompat: one TranslationContext, its adapter and one packet
\* ------------------------------------------------------------------------
InitCompat ==
    CompatInit /\ ConnIdle /\ NegInit /\ BatchIdle /\ RepInit /\ LotteryIdle /\ CoverIdle /\ DelayIdle /\ AuditIdle /\ PairIdle /\ BreakerIdle /\ RingIdle /\ RxIdle /\ MgrIdle /\ HttpIdle /\ FetchIdle

SpecCompat == InitCompat /\ [][CompatNext]_vars

\* ------------------------------------------------------------------------
\* SpecForgery, SpecProof: one RelayLottery with cost_of_forgery, and with
\* select_relay_with_proof and verify_lottery_proof
\* ------------------------------------------------------------------------
InitForgery ==
    LotteryInit /\ ConnIdle /\ NegInit /\ BatchIdle /\ RepInit /\ CoverIdle /\ DelayIdle /\ CompatIdle /\ AuditIdle /\ PairIdle /\ BreakerIdle /\ RingIdle /\ RxIdle /\ MgrIdle /\ HttpIdle /\ FetchIdle

SpecForgery == InitForgery /\ [][ForgeryNext]_vars

InitProof ==
    LotteryInit /\ ConnIdle /\ NegInit /\ BatchIdle /\ RepInit /\ CoverIdle /\ DelayIdle /\ CompatIdle /\ AuditIdle /\ PairIdle /\ BreakerIdle /\ RingIdle /\ RxIdle /\ MgrIdle /\ HttpIdle /\ FetchIdle

SpecProof == InitProof /\ [][ProofNext]_vars

\* ------------------------------------------------------------------------
\* SpecPair: two WeightedRelays that differ in reputation only
\* ------------------------------------------------------------------------
InitPair ==
    PairInit /\ ConnIdle /\ NegInit /\ BatchIdle /\ RepInit /\ LotteryIdle /\ CoverIdle /\ DelayIdle /\ CompatIdle /\ AuditIdle /\ BreakerIdle /\ RingIdle /\ RxIdle /\ MgrIdle /\ HttpIdle /\ FetchIdle

SpecPair == InitPair /\ [][PairNext]_vars

\* ------------------------------------------------------------------------
\* SpecStats: one AdvancedCoverTrafficGenerator whose statistics can be reset
\* ------------------------------------------------------------------------
InitStats ==
    CoverInit /\ ConnIdle /\ NegInit /\ BatchIdle /\ RepInit /\ LotteryIdle /\ DelayIdle /\ CompatIdle /\ AuditIdle /\ PairIdle /\ BreakerIdle /\ RingIdle /\ RxIdle /\ MgrIdle /\ HttpIdle /\ FetchIdle

SpecStats == InitStats /\ [][StatsNext]_vars

\* ------------------------------------------------------------------------
\* SpecBreaker: one CircuitBreaker and the clock
\* ------------------------------------------------------------------------
InitBreaker ==
    BreakerIdle /\ ConnIdle /\ NegInit /\ BatchIdle /\ RepInit /\ LotteryIdle /\ CoverIdle /\ DelayIdle /\ CompatIdle /\ AuditIdle /\ PairIdle /\ RingIdle /\ RxIdle /\ MgrIdle /\ HttpIdle /\ FetchIdle

SpecBreaker == InitBreaker /\ [][BreakerNext]_vars

\* ------------------------------------------------------------------------
\* SpecRing: one TimeSeriesBuffer
\* ------------------------------------------------------------------------
InitRing ==
    RingInit /\ ConnIdle /\ NegInit /\ BatchIdle /\ RepInit /\ LotteryIdle /\ CoverIdle /\ DelayIdle /\ CompatIdle /\ AuditIdle /\ PairIdle /\ BreakerIdle /\ RxIdle /\ MgrIdle /\ HttpIdle /\ FetchIdle

SpecRing == InitRing /\ [][RingNext]_vars

\* ------------------------------------------------------------------------
\* Properties of the version handshake (SpecConn)
\* ------------------------------------------------------------------------

\* C1: when a v1.2.0 node and a v1.1.0 node run the handshake against each
\* other, both ends finish it with result Ok, negotiated version 1.1.0, and
\* each has sent and received the confirmation byte 0x11.
C1_HandshakeCompletes ==
    (/\ mode = "node" /\ ver["A"] = V1_2_0 /\ ver["B"] = V1_1_0
     /\ \A s \in Sides : result[s] # "none")
    => \A s \in Sides :
          /\ result[s] = "ok"
          /\ negotiated[s] = V1_1_0
          /\ sent_byte[s] = 17
          /\ confirm[s] = 17

\* m is the smaller of a and b in semver order
IsMinOf(m, a, b) == m \in {a, b} /\ ~VersionLess(a, m) /\ ~VersionLess(b, m)

\* C2 (as stated): for two versions with the same major, negotiate_version
\* returns Compatible(min) in both argument orders.
C2_SymmetricMin ==
    (nv_result # NoResult /\ nv_our.major = nv_their.major)
    => /\ nv_result.tag = "Compatible" /\ IsMinOf(nv_result.version, nv_our, nv_their)
       /\ nv_reverse.tag = "Compatible" /\ IsMinOf(nv_reverse.version, nv_our, nv_their)

\* the result r of negotiate_version(a, b) for two versions of one major:
\* Compatible(min(a, b)) when a.minor >= b.minor, Incompatible otherwise
DirectedMin(r, a, b) ==
    IF a.minor >= b.minor
    THEN r.tag = "Compatible" /\ IsMinOf(r.version, a, b)
    ELSE r.tag = "Incompatible" /\ r.our = a /\ r.their = b

\* C2 (amended): for two versions with the same major, negotiate_version(a, b)
\* returns Compatible(min(a, b)) when a.minor >= b.minor and Incompatible when
\* a.minor < b.minor, in either argument order.
C2_DirectedMin ==
    (nv_result # NoResult /\ nv_our.major = nv_their.major)
    => /\ DirectedMin(nv_result, nv_our, nv_their)
       /\ DirectedMin(nv_reverse, nv_their, nv_our)

C2_Witness ==
    /\ nv_our.major = nv_their.major /\ nv_our.minor > nv_their.minor
    /\ nv_result.tag = "Compatible" /\ nv_result.version = nv_their
    /\ nv_reverse.tag = "Incompatible"

\* C3: no data is read or submitted to the pipeline on a connection whose
\* handshake has not returned Ok, and a failed handshake ends the handler
\* with no data frame read.
C3_NoDataBeforeHandshake ==
    \A s \in Sides : IsNode(s) =>
        /\ (submitted[s] > 0 \/ loop_reads[s] > 0 \/ Len(written[s]) > 0) => result[s] = "ok"
        /\ result[s] \in {"protocol", "io"} =>
               pc[s] = "DONE" /\ loop_reads[s] = 0 /\ submitted[s] = 0

C3_Witness ==
    /\ result["A"] = "ok" /\ submitted["A"] > 0
    /\ mode = "raw"

\* C4: an end finishes the handshake only with a confirmation byte that
\* decodes to its locally computed version; any other confirmation ends it
\* with a protocol error; two ends that both finish hold the same version.
C4_ConfirmationAgrees ==
    /\ \A s \in Sides : IsNode(s) =>
          /\ result[s] = "ok" =>
                 confirm[s] # -1 /\ decode_byte(confirm[s]) = negotiated[s]
          /\ (confirm[s] # -1 /\ decode_byte(confirm[s]) # negotiated[s]) =>
                 result[s] = "protocol" /\ pc[s] = "DONE"
    /\ (mode = "node" /\ result["A"] = "ok" /\ result["B"] = "ok") =>
          negotiated["A"] = negotiated["B"]

C4_Witness ==
    /\ mode = "node" /\ ver["A"] # ver["B"]
    /\ result["A"] = "ok" /\ result["B"] = "ok"

\* C5: when the majors of the two ends differ, no end finishes the
\* handshake or accepts a negotiated byte, and an end that has read the
\* peer's advertisement has stopped with a protocol error.
C5_MajorMismatchAborts ==
    (ver["A"].major # ver["B"].major) =>
        \A s \in Sides : IsNode(s) =>
            /\ result[s] # "ok" /\ pc[s] # "LOOP"
            /\ confirm[s] = -1 /\ sent_byte[s] = -1
            /\ their_version[s] # NoVersion => result[s] = "protocol" /\ pc[s] = "DONE"
            /\ mode = "node" => result[s] \in {"none", "protocol"}

C5_Witness ==
    /\ mode = "node" /\ ver["A"].major # ver["B"].major
    /\ \A s \in Sides : result[s] = "protocol" /\ their_version[s] = ver[Peer(s)]

\* C6: an advertisement whose declared length exceeds 4096 ends the
\* handshake with a protocol error, with no ad_buf allocated and no byte of
\* the body read.
C6_OversizedAdRejected ==
    \A s \in Sides : (IsNode(s) /\ ad_length[s] > 4096) =>
        /\ result[s] = "protocol" /\ pc[s] = "DONE"
        /\ ad_buf[s] = -1
        /\ ~ad_body_read[s]

C6_Witness ==
    /\ ad_length["A"] = 4097 /\ result["A"] = "protocol"
    /\ Len(wire["A"]) > 0

\* C7: after a handshake that negotiated a version lower than the node's
\* own, every packet the node writes is in the negotiated version's format.
C7_WritesInNegotiatedFormat ==
    \A s \in Sides :
        (IsNode(s) /\ result[s] = "ok" /\ VersionLess(negotiated[s], ver[s])) =>
            \A i \in 1..Len(written[s]) :
                written[s][i] = PacketFormat_for_version(negotiated[s])

\* ------------------------------------------------------------------------
\* Properties of the batch scheduler (SpecBatch, SpecAdapt)
\* ------------------------------------------------------------------------
InQueue(p) == Cardinality({i \in 1..Len(packet_queue) : packet_queue[i] = p})

\* C8: every packet accepted by submit_packet is either in the queue or was
\* returned by exactly one next_batch call, never both, never twice, never
\* neither, whatever the interleaving of the tasks.
C8_NoSilentLoss ==
    \A p \in Packets :
        IF p <= accepted
        THEN InQueue(p) + returned[p] = 1
        ELSE InQueue(p) = 0 /\ returned[p] = 0

C8_Witness ==
    /\ accepted = MaxSubmits
    /\ returned[1] = 1 /\ InQueue(MaxSubmits) = 1
    /\ \A t \in Tasks : task[t].pc # "idle"

\* C9: the input queue never holds more packets than its configured capacity.
C9_QueueWithinCapacity == Len(packet_queue) <= QueueCapacity

\* C10: for every accepted configuration the target batch size is within
\* [min_batch_size, max_batch_size], itself within 1..128, after construction
\* and after every update_network_load.
C10_TargetWithinBounds ==
    /\ 1 <= config.min_batch_size /\ config.max_batch_size <= 128
    /\ config.min_batch_size <= current_batch_size
    /\ current_batch_size <= config.max_batch_size

\* C11: any two consecutive batches returned by next_batch are at least
\* min_delay_ms apart, also when several tasks call next_batch concurrently.
C11_MinDelayBetweenBatches ==
    release_gap # -1 => release_gap >= config.min_delay_ms

\* ------------------------------------------------------------------------
\* Properties of the reputation manager (SpecRep)
\* ------------------------------------------------------------------------

\* C12: after any sequence of reputation actions (rewards, penalties,
\* Custom(n) for any i32 n) and decay ticks, a node's points are in [0, 200]
\* and its reputation equals points / 200.
C12_PointsInRange ==
    \A n \in RepNodes : reputations[n].present =>
        /\ reputations[n].reputation_points >= 0
        /\ reputations[n].reputation_points <= 200
        /\ reputations[n].reputation.num * 200 =
               reputations[n].reputation_points * reputations[n].reputation.den

C12_Witness ==
    \E n \in RepNodes :
        /\ reputations[n].present
        /\ reputations[n].total_actions = MaxActions
        /\ reputations[n].decay_events > 0
        /\ reputations[n].reputation_points = 0
        /\ rep_outcome = "ok"

\* C13: a new node (100 points) with no activity for 10 days and
\* apply_decay_all invoked once per day has 100 * 0.99^10, that is 90 points
\* within +-1, after the tenth tick.
C13_TenDaysDecay ==
    \A n \in RepNodes :
        (/\ reputations[n].present
         /\ reputations[n].created_at = 0 /\ reputations[n].total_actions = 0
         /\ daily /\ today = 10 /\ ticks_today = 1)
        => /\ reputations[n].reputation_points >= 89
           /\ reputations[n].reputation_points <= 91

\* ------------------------------------------------------------------------
\* Properties of the relay lottery (SpecLottery)
\* ------------------------------------------------------------------------
PairwiseDistinct(q) == \A i, j \in 1..Len(q) : i # j => q[i] # q[j]

\* C14: after any sequence of add_relay and remove_relay calls that leaves
\* at least one relay, select_unique_relays(n) returns n pairwise-distinct
\* addresses when n <= relay_count(), and an error when n > relay_count().
C14_UniqueSelection ==
    (selection.op = "select_unique_relays" /\ selection.available > 0) =>
        IF selection.count <= selection.available
        THEN /\ selection.outcome = "ok"
             /\ Len(selection.addrs) = selection.count
             /\ PairwiseDistinct(selection.addrs)
        ELSE selection.outcome = "err"

\* C15: with Sybil resistance on, after sync_with_reputation_manager every
\* relay whose stake is below min_stake has weight zero, and no selection
\* made after the sync returns such a relay.
C15_LowStakeExcluded ==
    sybil_resistance =>
        /\ synced => \A i \in 1..Len(relays) :
                         relays[i].stake < min_stake => relays[i].weight = 0
        /\ (selection.after_sync /\ selection.outcome = "ok") => ~selection.low_stake

\* C16: every selection operation on a lottery with no registered relay
\* returns an error, also when the lottery became empty by removals.
C16_EmptyLotteryErrors ==
    (selection.op # "none" /\ selection.available = 0) => selection.outcome = "err"

C16_Witness ==
    /\ relays = <<>> /\ removed_any
    /\ selection.op = "select_unique_relays" /\ selection.count = 0
    /\ selection.available = 0 /\ selection.outcome = "err"

\* ------------------------------------------------------------------------
\* Properties of the cover traffic generator (SpecCover)
\* ------------------------------------------------------------------------

\* C17: with cover traffic enabled and some real traffic observed, the cover
\* bytes sent divided by the real bytes observed do not exceed
\* max_bandwidth_overhead, after any interleaving of update_real_traffic_stats
\* and generate_cover_packet.
C17_OverheadWithinCeiling ==
    (cover_config.enabled /\ real_traffic_stats.total_size > 0) =>
        bytes_sent * 100 <= cover_config.max_bandwidth_overhead * real_traffic_stats.total_size

\* ------------------------------------------------------------------------
\* Properties of the Poisson delay generator (SpecDelay)
\* ------------------------------------------------------------------------

\* C18: every delay returned by next_delay lies in [min_delay, max_delay],
\* for every generator accepted by new and any jitter, network load and
\* circuit multiplier settings.
C18_DelayWithinBounds ==
    delay # -1 => generator.min_delay <= delay /\ delay <= generator.max_delay

\* ------------------------------------------------------------------------
\* Properties of shutdown and the read timeout (FairSpecServe, SpecServe)
\* ------------------------------------------------------------------------

\* C19: after the shutdown signal is sent, every open connection task
\* eventually terminates, whatever stage the connection is in.
C19_ShutdownTerminates ==
    shutdown ~> (\A s \in Sides : IsNode(s) => pc[s] = "DONE")

\* C20: a connection on which the peer sends nothing for the connection
\* timeout is closed by the server, in the handshake as between data frames:
\* no open connection task has waited in a read for longer than the timeout.
C20_SilentPeerClosed ==
    \A s \in Sides : IsNode(s) /\ pc[s] # "DONE" => idle[s] <= ConnectionTimeout

\* ------------------------------------------------------------------------
\* Properties of TcpClient against TcpServer (SpecClient)
\* ------------------------------------------------------------------------

\* C21: every packet sent with TcpClient::send_packet to a TcpServer is
\* submitted to the server's pipeline: once the server's connection task
\* has finished, it has submitted as many packets as the client sent.
C21_ClientPacketSubmitted ==
    mode = "client" /\ pc["A"] = "DONE" => submitted["A"] >= raw_frames

\* ------------------------------------------------------------------------
\* Properties of the compatibility layer (SpecCompat)
\* ------------------------------------------------------------------------

\* C22: a packet adapter for (source_version, target_version) is built if
\* and only if both versions have the same major and source >= target; every
\* other pair yields an error.
C22_AdapterIffDownshift ==
    tc_adapter # "none" =>
        (tc_adapter = "Ok" <=>
            (tc_source.major = tc_target.major /\ ~VersionLess(tc_source, tc_target)))

\* C23: for every F1.1 packet [u32 length][u16 batch_info][payload] the
\* F1.1 -> F1.0 adapter returns [u32 BE len'][payload] with
\* len' = payload.len() and the payload bytes unchanged and in order.
C23_StripKeepsPayload ==
    (/\ converted # NotConverted
     /\ PacketFormat_for_version(tc_source) = "V1_1"
     /\ PacketFormat_for_version(tc_target) = "V1_0"
     /\ Len(packet_data) >= 6) =>
        LET payload == SubSeq(packet_data, 7, Len(packet_data))
        IN /\ converted.tag = "Ok"
           /\ Len(converted.bytes) = 4 + Len(payload)
           /\ from_be_bytes(converted.bytes) = Len(payload)
           /\ SubSeq(converted.bytes, 5, Len(converted.bytes)) = payload

\* a v1.1 packet whose declared length differs from its payload's has been
\* converted to v1.0
C23_Witness ==
    /\ converted.tag = "Ok"
    /\ PacketFormat_for_version(tc_source) = "V1_1"
    /\ PacketFormat_for_version(tc_target) = "V1_0"
    /\ Len(packet_data) = 6 + MaxPayload
    /\ from_be_bytes(packet_data) # MaxPayload

\* C24: for every version of the form (1, m, 0),
\* decode_byte(encode_byte(v)) returns v.
C24_ByteRoundTrip ==
    (round_trip.done /\ tc_source.major = 1 /\ tc_source.patch = 0) =>
        round_trip.version = tc_source

\* ------------------------------------------------------------------------
\* Properties of cost_of_forgery (SpecForgery) and of lottery proofs (SpecProof)
\* ------------------------------------------------------------------------

\* C25: with Sybil-resistance on and a positive total stake,
\* cost_of_forgery(attacker_stake) is monotone non-decreasing in
\* attacker_stake and is at least 1.0 whenever
\* attacker_stake / total_stake >= 0.33.
C25_ForgeryCostMonotone ==
    (forgery.done /\ forgery.sybil /\ forgery.total_stake > 0) =>
        /\ \A a \in AttackerStakes, b \in AttackerStakes :
              a <= b => RatioLeq(forgery.cost[a], forgery.cost[b])
        /\ \A a \in AttackerStakes :
              a * 100 >= 33 * forgery.total_stake =>
                  RatioLeq(Ratio(1, 1), forgery.cost[a])

\* the cost was computed on a staked Sybil-resistant lottery, with attacker
\* stakes on both sides of a third of the total
C25_Witness ==
    /\ forgery.done /\ forgery.sybil /\ forgery.total_stake > 0
    /\ \E a \in AttackerStakes :
          a * 100 < 33 * forgery.total_stake /\ forgery.cost[a].num > 0
    /\ \E a \in AttackerStakes :
          a * 100 >= 33 * forgery.total_stake /\ a < forgery.total_stake

\* C27: verify_lottery_proof accepts a proof only if it records a draw
\* actually produced with this lottery's VRF key for the recorded seed; a
\* proof whose seed or selected addresses were altered, or that was produced
\* under a different key, is rejected.
C27_OnlyGenuineProofsAccepted ==
    verdict.accepted => verdict.given.origin = "drawn"

\* C26: for any two relays with equal performance and equal stake (any stake
\* value), the relay with the higher reputation has a strictly higher
\* weight, both at creation and after update_reputation.
C26_HigherReputationHigherWeight ==
    \A i \in 1..2, j \in 1..2 :
        pair[i].reputation > pair[j].reputation => pair[i].weight > pair[j].weight

\* ------------------------------------------------------------------------
\* Properties of the statistics counters (SpecStats)
\* ------------------------------------------------------------------------

\* C28: the statistics counters never decrease over any sequence of
\* operations; here the cover traffic generator's count of packets sent and
\* of bytes sent.
C28_CountersNeverDecrease ==
    [][packets_sent' >= packets_sent /\ bytes_sent' >= bytes_sent]_vars

\* ------------------------------------------------------------------------
\* Properties of the circuit breaker (SpecBreaker)
\* ------------------------------------------------------------------------

\* C29: starting from Closed, after failure_threshold consecutive
\* record_failure calls with no intervening success the breaker is Open, and
\* can_attempt returns false until timeout_duration has elapsed since the
\* last failure, when it moves to HalfOpen. failure_count is the number of
\* record_failure calls since the last success.
C29_OpensAndRecovers ==
    /\ failure_count >= failure_threshold => state # "Closed"
    /\ state = "HalfOpen" =>
          attempt.made /\ attempt.result /\ attempt.from \in {"Open", "HalfOpen"}
    /\ (attempt.made /\ attempt.from = "Open" /\ attempt.count >= failure_threshold) =>
          /\ attempt.result <=> attempt.elapsed >= timeout_duration
          /\ attempt.to = IF attempt.result THEN "HalfOpen" ELSE "Open"

\* five failures opened the breaker and, timeout_duration after the last of
\* them, can_attempt moved it to HalfOpen
C29_Witness ==
    /\ state = "HalfOpen" /\ failure_count = failure_threshold
    /\ attempt.from = "Open" /\ attempt.elapsed = timeout_duration

\* ------------------------------------------------------------------------
\* Properties of the time series buffer (SpecRing)
\* ------------------------------------------------------------------------

\* C30: after any sequence of pushes a TimeSeriesBuffer holds at most
\* max_size points, and they are the most recently pushed points in push
\* order.
C30_RingHoldsLatest ==
    /\ Len(ts_data) <= ts_max_size
    /\ Len(ts_data) <= Len(ts_pushed)
    /\ ts_data = SubSeq(ts_pushed, Len(ts_pushed) - Len(ts_data) + 1, Len(ts_pushed))

\* ------------------------------------------------------------------------
\* Properties of next_batch on a non-empty queue (SpecBatch)
\* ------------------------------------------------------------------------

\* C31: a next_batch call that reaches its collection step while the queue
\* is non-empty returns at least one packet, for every accepted
\* configuration and every load history (so repeated calls drain the queue).
C31_NonEmptyQueueYieldsPackets ==
    [][\A t \in Tasks :
          (task[t].pc = "collect" /\ task'[t].pc = "idle" /\ packet_queue # <<>>) =>
              /\ Len(packet_queue') < Len(packet_queue)
              /\ returned' # returned]_vars

\* ------------------------------------------------------------------------
\* Properties of the handshake between equal versions (SpecConn)
\* ------------------------------------------------------------------------

\* C32: two nodes constructed with the same protocol version, whatever its
\* major, minor and patch, both finish the handshake with result Ok and
\* that version as the negotiated one.
C32_SameVersionCompletes ==
    (/\ mode = "node" /\ ver["A"] = ver["B"]
     /\ \A s \in Sides : result[s] # "none")
    => \A s \in Sides : result[s] = "ok" /\ negotiated[s] = ver[s]

\* ------------------------------------------------------------------------
\* Properties of relay removal and of the cached index (SpecLottery)
\* ------------------------------------------------------------------------

\* get_relay(address) is Some: the map has an entry for the address
get_relay_is_some(map, address) == map[address] # 0

\* C33: when remove_relay(addr) has removed a relay, addr is no longer
\* registered: get_relay(addr) is None and no entry of the relay list, from
\* which selections draw, carries addr; this for any earlier sequence of
\* add_relay calls.
C33_RemovedIsGone ==
    [][\A address \in Addresses :
          (/\ relay_map[address] # 0
           /\ Len(relays') < Len(relays)
           /\ relays' = RemoveAt(relays, relay_map[address]))
          => /\ ~get_relay_is_some(relay_map', address)
             /\ \A i \in 1..Len(relays') : relays'[i].address # address]_vars

C35_MinLatencyTarget ==
    (config.strategy = "MinLatency" /\ load_window # <<>>)
    => current_batch_size =
          IF network_load.sum < config.load_increase_threshold * network_load.len
          THEN config.min_batch_size
          ELSE (config.min_batch_size + config.max_batch_size) \div 4

\* ------------------------------------------------------------------------
\* Properties of the receive buffer (SpecRx)
\* ------------------------------------------------------------------------

\* C36: whatever lengths the peer declares, the receive buffer of a
\* connection never holds more than one length prefix and MAX_PACKET_SIZE
\* payload bytes between two turns of the read loop, and no frame whose
\* declared length exceeds MAX_PACKET_SIZE reaches the pipeline.
C36_BufferBounded ==
    /\ rx_buffer <= 4 + MAX_PACKET_SIZE
    /\ \A i \in 1..Len(rx_submitted) : rx_submitted[i] <= MAX_PACKET_SIZE

\* ------------------------------------------------------------------------
\* Properties of the reputation managers (SpecMgr)
\* ------------------------------------------------------------------------

\* C37: however the ReputationManager was obtained, apply_decay_all
\* multiplies the points of a node that has been inactive for d > 0 days
\* by 0.99^d (truncated, within 0..200).
C37_DecayIsOnePercentPerDay ==
    mgr_decay.done =>
        mgr_decay.after = clamp(DecayedPoints(mgr_decay.before, mgr_decay.days_inactive), 0, 200)

\* ------------------------------------------------------------------------
\* Properties of the admin HTTP server (SpecHttp)
\* ------------------------------------------------------------------------

\* C38: no request to a routed endpoint ends in a handler that never
\* returns or that aborts without a response, and a handler that has
\* produced its response no longer holds the mixnodes lock; this for any
\* number of deployed mixnodes and concurrent requests.
C38_RequestsAnswered ==
    \A h \in HttpTasks :
        /\ http_req[h].pc \notin {"deadlocked", "panicked"}
        /\ http_req[h].pc \in {"respond", "answered"} => http_lock # h

\* ------------------------------------------------------------------------
\* Properties of a failed recovery attempt (SpecBreaker)
\* ------------------------------------------------------------------------

\* C39: a failure recorded while the breaker is HalfOpen moves it back to
\* Open (from where can_attempt is false until timeout_duration has
\* elapsed since that failure).
C39_HalfOpenFailureReopens ==
    [][(state = "HalfOpen" /\ failure_count' = failure_count + 1) => state' = "Open"]_vars

\* ------------------------------------------------------------------------
\* Properties of fetch_metrics (SpecFetch)
\* ------------------------------------------------------------------------

\* C40: a fetch_metrics call that finds no fresh cache entry, goes to the
\* upstream and sees every request fail records a failure on the circuit
\* breaker, and after failure_threshold consecutive such calls the breaker
\* is no longer Closed.
C40_FailedFetchRecorded ==
    /\ (fc_call.made /\ fc_call.attempted /\ fc_call.all_failed) =>
          fc_call.recorded = "failure"
    /\ fc_streak >= failure_threshold => fc_breaker.state # "Closed"

====
